---- MODULE Spec2Model ----
(***************************************************************************)
(* A model of buswatch: the in-process instrumentation registry of         *)
(* buswatch-sdk (state.rs, handle.rs) driven by concurrent caller threads, *)
(* and the emission scheduler of instrumentor.rs.                          *)
(*                                                                         *)
(* Counters are AtomicU64 in the program; every bound below keeps the      *)
(* modelled sums far below 2^64, so fetch_add never wraps here.            *)
(* Instants are integers in milliseconds; Option<Instant> uses NoInstant.  *)
(***************************************************************************)
EXTENDS Integers, Sequences, FiniteSets, TLC

\* ---------------------------------------------------------------- bounds
MaxCalls == 5         \* calls made on the instrumentor and its handles, and clock advances
MaxRounds == 2        \* emission rounds the background task starts
MaxClientCalls == 2   \* calls the application makes beside a running emission task
MaxWrites == 2        \* writes and removals of the watched snapshot file
MaxPolls == 3         \* polls a caller makes on a source
MaxLines == 3         \* lines a stream carries before it ends or fails
MaxSends == 6         \* values a producer sends on the watch channel
MaxEvents == 4        \* key presses, mouse events and reloads the viewer handles
ChannelBuffer == 1    \* the buffer of the channel behind a Channel output
MaxRecords == 3       \* snapshots a History records

\* ------------------------------------------------------- program constants
RateMinElapsedMs == 10
MAX_HISTORY_SIZE == 60
QueueCapacity == 16
UNAUTHORIZED == 401
NOT_FOUND == 404
PageStep == 10
ContentStartRow == 3

\* ------------------------------------------------------------ input sets
Threads == {"T1", "T2"}
Emitter == "S"                   \* the task spawned by Instrumentor::start
Tasks == Threads \cup {Emitter}
OutputSeq == <<"file", "channel", "tcp">>   \* Instrumentor.outputs, in order
NameSeq == <<"a", "b">>          \* BTreeMap key order of the module names
TopicSeq == <<"t">>              \* BTreeMap key order of the topics
Names == {NameSeq[x] : x \in 1..Len(NameSeq)}
Topics == {TopicSeq[x] : x \in 1..Len(TopicSeq)}
Kinds == {"r", "w"}
ModIds == 1..MaxCalls            \* every module allocated takes a register call
Increments == {1, 2}
ClockSteps == {5, 10}

NoModule == 0
NoInstant == -1
NoCounter == -1
NoValue == -1
NoPrev == <<>>
NoRate == <<>>
NoMtime == -1
NoSnapshot == 0
NoError == "none"
NoIndex == -1

VARIABLES
    modules,             \* GlobalState.modules: name -> module id or NoModule
    nextId,              \* the next Arc<ModuleState> to be allocated
    owner,               \* the name each allocated module was registered under
    reads,               \* ModuleState.reads of every module: topic -> ReadState
    writes,              \* ModuleState.writes of every module: topic -> WriteState
    topic_write_counts,  \* GlobalState.topic_write_counts: topic -> counter
    clock,               \* Instant::now()
    th,                  \* each thread's call in progress
    col,                 \* each thread's collect in progress and its result
    guards,              \* live PendingGuards per series
    released,            \* of these, the ones overridden by set_*_pending(None)
    rearmed,             \* the series' cell was armed again after such an override
    overlapped,          \* a token was armed while another was alive on the series
    overridden,          \* set_*_pending was ever used on the series
    lastDrop,            \* the last PendingGuard dropped, and the cell before it
    issued,              \* sum of the counts passed to record_* per series
    orphanAdds,          \* per topic, what handles of unregistered modules added to the global counter
    retired,             \* module ids removed from the registry by unregister
    calls,               \* calls made and clock advances so far
    lastUnreg,           \* the last unregister call: name, return value, presence
    regRet,              \* per name, the modules register returned since the last unregister
    sched,               \* the emission task, its watch channel and its handle
    file,                \* the watched snapshot file, the viewer's FileSource and its poll in progress
    stream,              \* a StreamSource: its reader task, its queue and its polls
    chan,                \* a ChannelSource and the watch channel behind it
    app,                 \* the viewer's App: data, views, selection, overlays, filter, sort
    history,             \* a History: the deques of counts per module and of timestamps
    adapter              \* the bus adapters: the last call made on one and its result

regVars == <<modules, nextId, owner, retired, lastUnreg, regRet>>
mapVars == <<reads, writes>>
countVars == <<topic_write_counts, issued, orphanAdds>>
tokenVars == <<guards, released, rearmed, overlapped, overridden, lastDrop>>
sdkVars == <<regVars, mapVars, countVars, tokenVars, clock, th, col, calls, sched>>
sideVars == <<history, adapter>>
tuiVars == <<file, stream, chan, app, sideVars>>

vars == <<modules, nextId, owner, reads, writes, topic_write_counts, clock, th, col,
          guards, released, rearmed, overlapped, overridden, lastDrop, issued, orphanAdds, retired, calls,
          lastUnreg, regRet, sched, file, stream, chan, app, history, adapter>>

\* ------------------------------------------------------------ data types
\* ReadState::default / WriteState::default, and the absent map entry.
NoSeries == [exists |-> FALSE, count |-> 0, pending_since |-> NoInstant, prev_snapshot |-> NoPrev]
DefaultSeries == [exists |-> TRUE, count |-> 0, pending_since |-> NoInstant, prev_snapshot |-> NoPrev]

\* ModuleState::default: no topic in either map.
DefaultModuleMap == [t \in Topics |-> NoSeries]

NoMetric == [present |-> FALSE, count |-> 0, backlog |-> NoValue, pending |-> NoValue, rate |-> NoRate,
             total |-> NoCounter, orphan |-> 0]
NoModuleMetrics == [present |-> FALSE, id |-> NoModule,
                    reads |-> [t \in Topics |-> NoMetric], writes |-> [t \in Topics |-> NoMetric]]
EmptySnapshot == [n \in Names |-> NoModuleMetrics]

\* No register call has returned for a name; slowHit: a slow path found the
\* module that another call had inserted meanwhile.
NoReturns == [ids |-> {}, slowHit |-> FALSE]

\* No call in progress. parked: the thread has tried the write lock of its
\* slow path, found it read-locked, and waits in the lock's queue. raced:
\* the slow path of the call found the series another call had created
\* meanwhile.
IdleCall == [pc |-> "idle", op |-> "none", mid |-> NoModule, kind |-> "r", topic |-> TopicSeq[1],
             k |-> 0, since |-> NoInstant, name |-> NameSeq[1], parked |-> FALSE, raced |-> FALSE]
\* The emission task before Instrumentor::start: no task, no handle, no
\* emit in progress, nothing queued behind the Channel output, and no
\* emit_now in its loop over the outputs.
NotStarted == [pc |-> "idle", handle |-> "none", value |-> FALSE, unseen |-> FALSE, closed |-> FALSE,
               closedSeen |-> FALSE, stoppedIn |-> "none", tickReady |-> FALSE, round |-> 0,
               ix |-> 1, invoked |-> [i \in 1..Len(OutputSeq) |-> 0], failedRound |-> 0,
               busy |-> 0, queue |-> <<>>, dropped |-> 0, now |-> [ix |-> 1, busy |-> 0]]

IdleCollect == [i |-> 0, j |-> 0, mid |-> NoModule, now |-> 0, count |-> 0, pending |-> NoValue,
                rate |-> NoRate, acc |-> NoModuleMetrics, out |-> EmptySnapshot,
                base |-> [m \in ModIds |-> [t \in Topics |-> 0]], after |-> {}]

SeriesIds == ModIds \X Kinds \X Topics

SeriesOf(m, kind, t) == IF kind = "r" THEN reads[m][t] ELSE writes[m][t]

\* The module ids a handle exists for: handles are never invalidated.
Handles == 1..(nextId - 1)

CollectPcs == {"c_mod", "c_rload", "c_rmemo", "c_wload", "c_wmemo", "c_backlog"}

\* A collect that counts as holding topic_write_counts while it still
\* waits for it.
CollectingOrWaiting == {t \in Tasks : th[t].pc \in CollectPcs \cup {"c_twc"}}
\* Threads inside GlobalState::collect hold modules.read() and topic_write_counts.read().
Collecting == {t \in Tasks : th[t].pc \in CollectPcs}
\* Threads iterating a module's reads (writes) map hold its read lock.
ReadsLocked(m) == \E t \in Tasks : th[t].pc \in {"c_rload", "c_rmemo"} /\ col[t].mid = m
WritesLocked(m) == \E t \in Tasks : th[t].pc \in {"c_wload", "c_wmemo"} /\ col[t].mid = m
MapLocked(m, kind) == IF kind = "r" THEN ReadsLocked(m) ELSE WritesLocked(m)
\* Threads that hold modules.read() and wait for topic_write_counts.read().
CountsWaiting == {t \in Tasks : th[t].pc = "c_twc"}
\* parking_lot's RwLock lets no new reader in while a writer is parked on it:
\* a writer is parked on modules, on topic_write_counts, on a series map.
ParkedModules == \E t \in Tasks : th[t].parked /\ th[t].pc = "reg_slow"
ParkedCounts == \E t \in Tasks : th[t].parked /\ th[t].pc = "gw_slow"
ParkedMap(m, kind) == \E t \in Tasks : th[t].parked /\ th[t].pc = "lookup_slow" /\ th[t].mid = m /\ th[t].kind = kind
\* Where GlobalState::collect stands once it holds modules.read().
AfterModulesRead == IF ParkedCounts THEN "c_twc" ELSE "c_mod"

\* ------------------------------------------------------ the viewer's data
\* HealthStatus, in the order its derive(Ord) gives.
Healthy == 0
Warning == 1
Critical == 2

\* Module and topic names are strings of these characters, in byte order.
Chars == {"A", "a", "b"}
CharCode == [c \in Chars |-> IF c = "A" THEN 65 ELSE IF c = "a" THEN 97 ELSE 98]

\* str::to_lowercase
to_lowercase(s) == [i \in 1..Len(s) |-> IF s[i] = "A" THEN "a" ELSE s[i]]

\* str::contains
contains(s, sub) == \E i \in 0..(Len(s) - Len(sub)) : SubSeq(s, i + 1, i + Len(sub)) = sub

RECURSIVE StrLess(_, _)
\* Ord for String: x sorts before y.
StrLess(x, y) ==
    IF x = <<>> THEN y # <<>>
    ELSE IF y = <<>> THEN FALSE
    ELSE IF x[1] # y[1] THEN CharCode[x[1]] < CharCode[y[1]]
    ELSE StrLess(Tail(x), Tail(y))

\* slice::sort_by, a stable sort: the positions of s in sorted order.
SortPerm(s, Before(_, _)) ==
    CHOOSE p \in [1..Len(s) -> 1..Len(s)] :
        \A i, j \in 1..Len(s) : i < j =>
            /\ p[i] # p[j]
            /\ ~Before(s[p[j]], s[p[i]])
            /\ (~Before(s[p[i]], s[p[j]]) => p[i] < p[j])

sort_by(s, Before(_, _)) == LET p == SortPerm(s, Before) IN [i \in 1..Len(s) |-> s[p[i]]]

\* The snapshots a producer writes: a BTreeMap of module states in key
\* order, each with its topics as parse_module leaves them.
SnapshotSeq == <<
    <<>>,
    << [name |-> <<"A", "b">>, total_read |-> 1, total_written |-> 2, pending |-> 20,
        topics |-> << [topic |-> <<"b">>, status |-> Critical] >>],
       [name |-> <<"a">>, total_read |-> 3, total_written |-> 0, pending |-> 0,
        topics |-> << [topic |-> <<"a">>, status |-> Healthy] >>],
       [name |-> <<"b">>, total_read |-> 2, total_written |-> 1, pending |-> 5,
        topics |-> << [topic |-> <<"a">>, status |-> Warning], [topic |-> <<"b">>, status |-> Healthy] >>] >>,
    << [name |-> <<"b">>, total_read |-> 1, total_written |-> 1, pending |-> 0,
        topics |-> << [topic |-> <<"b">>, status |-> Healthy] >>] >> >>
SnapshotIds == 1..Len(SnapshotSeq)

\* The health parse_module gives a module: the worst status of its topics.
ModuleHealth(m) ==
    IF \E i \in 1..Len(m.topics) : m.topics[i].status = Critical THEN Critical
    ELSE IF \E i \in 1..Len(m.topics) : m.topics[i].status = Warning THEN Warning
    ELSE Healthy

\* MonitorData::from_snapshot: the modules, critical first, then by name.
from_snapshot(snap) ==
    LET ms == [i \in 1..Len(snap) |->
                  [name |-> snap[i].name, total_read |-> snap[i].total_read,
                   total_written |-> snap[i].total_written, pending |-> snap[i].pending,
                   topics |-> snap[i].topics, health |-> ModuleHealth(snap[i])]]
    IN  sort_by(ms, LAMBDA a, b : a.health > b.health \/ (a.health = b.health /\ StrLess(a.name, b.name)))

\* App.data: None, or the MonitorData of a snapshot.
NoData == [ver |-> NoSnapshot, snap |-> 1]
\* The last event handled, before any; from and topic are the view and the
\* topic selection a view switch left behind, key is the key that filter
\* input or the filter commands handled, row the content row a left click
\* was on.
NoEvent == [op |-> "none", polled |-> FALSE, popped |-> FALSE, from |-> "none", topic |-> 0, key |-> "none",
            row |-> NoIndex]
\* No monitor_export.json written.
NoExport == [members |-> {}]
\* App::new
AppInit == [pc |-> "idle", running |-> TRUE, current_view |-> "Summary", show_help |-> FALSE,
            show_detail_overlay |-> FALSE, data |-> NoData, history |-> 0, load_error |-> NoError,
            selected_module_index |-> 0, selected_topic_index |-> 0, view_stack |-> <<>>,
            sort_column |-> "Name", sort_ascending |-> TRUE,
            bottleneck_sort_column |-> "Status", bottleneck_sort_ascending |-> FALSE,
            filter_text |-> <<>>, filter_active |-> FALSE, events |-> 0, last |-> NoEvent,
            status_message |-> "none", exported |-> NoExport]

\* The poll ghost before any poll was made.
NoPoll == [done |-> FALSE, result |-> NoSnapshot, tried |-> FALSE, sawFile |-> FALSE, sawMtime |-> NoMtime,
           readValid |-> FALSE, cursorBefore |-> NoMtime, prevFailed |-> FALSE, prevSawMtime |-> NoMtime]
\* No file on disk, and FileSource::new: nothing remembered, no error.
FileInit == [exists |-> FALSE, valid |-> FALSE, ver |-> NoSnapshot, snap |-> 1, mtime |-> 0,
             last_modified |-> NoMtime, last_error |-> NoError, cached_snapshot |-> NoSnapshot,
             pc |-> "idle", current_modified |-> NoMtime,
             writes |-> 0, polls |-> 0, returned |-> <<>>, last |-> NoPoll, emitting |-> FALSE]
\* StreamSource::spawn: the reader task at its first read_line, an empty
\* queue, no error, nothing polled.
StreamInit == [task |-> "read", sending |-> NoSnapshot, queue |-> <<>>, last_error |-> NoError,
               last_snapshot |-> NoSnapshot, lines |-> <<>>, polls |-> 0, returned |-> <<>>,
               last |-> [done |-> FALSE, result |-> NoSnapshot, queued |-> 0, readerDone |-> FALSE]]
\* ChannelSource::create: a watch channel holding the default (empty)
\* snapshot, numbered 0, which the receiver has seen; nothing polled.
ChanInit == [value |-> 0, version |-> 0, seen |-> 0, initial_returned |-> FALSE, sends |-> 0, polls |-> 0,
             unseen |-> 0,
             last |-> [done |-> FALSE, some |-> FALSE, value |-> 0, first |-> FALSE, sentSince |-> 0]]

\* History::new: no deque, no timestamp; at holds, beside each count of
\* module_reads, the instant of the snapshot it was recorded from.
HistoryInit == [module_reads |-> [n \in Names |-> <<>>], module_writes |-> [n \in Names |-> <<>>],
                timestamps |-> <<>>, at |-> [n \in Names |-> <<>>], now |-> 0]
\* No call made on an adapter yet.
NoAdapterCall == [op |-> "none"]
\* requests counts the HTTP requests of the call in progress or last made.
AdapterInit == [pc |-> "idle", requests |-> 0, last |-> NoAdapterCall]

\* Everything but the registry's modules: no counter, no call in progress,
\* no emission task, and the viewer as constructed.
RestInit ==
    /\ writes = [m \in ModIds |-> DefaultModuleMap]
    /\ topic_write_counts = [t \in Topics |-> NoCounter]
    /\ clock = 0
    /\ th = [t \in Tasks |-> IdleCall]
    /\ col = [t \in Tasks |-> IdleCollect]
    /\ guards = [s \in SeriesIds |-> 0]
    /\ released = [s \in SeriesIds |-> 0]
    /\ rearmed = [s \in SeriesIds |-> FALSE]
    /\ overlapped = [s \in SeriesIds |-> FALSE]
    /\ overridden = [s \in SeriesIds |-> FALSE]
    /\ lastDrop = [done |-> FALSE, id |-> <<1, "r", TopicSeq[1]>>, wasReleased |-> FALSE, before |-> NoInstant,
                   after |-> NoInstant, rearmed |-> FALSE]
    /\ issued = [s \in SeriesIds |-> 0]
    /\ orphanAdds = [t \in Topics |-> 0]
    /\ retired = {}
    /\ calls = 0
    /\ sched = NotStarted
    /\ lastUnreg = [name |-> NameSeq[1], ret |-> FALSE, was |-> FALSE, after |-> FALSE, again |-> FALSE]
    /\ file = FileInit
    /\ stream = StreamInit
    /\ chan = ChanInit
    /\ app = AppInit
    /\ history = HistoryInit
    /\ adapter = AdapterInit

\* GlobalState::default: no module.
Init ==
    /\ modules = [n \in Names |-> NoModule]
    /\ nextId = 1
    /\ owner = [m \in ModIds |-> NameSeq[1]]
    /\ reads = [m \in ModIds |-> DefaultModuleMap]
    /\ regRet = [n \in Names |-> NoReturns]
    /\ RestInit

\* A process in which the second name is registered and reads the topic,
\* with nothing read yet: register(b) and start_read(t) have returned.
OrphanInit ==
    /\ modules = [n \in Names |-> IF n = NameSeq[2] THEN 1 ELSE NoModule]
    /\ nextId = 2
    /\ owner = [m \in ModIds |-> IF m = 1 THEN NameSeq[2] ELSE NameSeq[1]]
    /\ reads = [m \in ModIds |-> IF m = 1 THEN [DefaultModuleMap EXCEPT ![TopicSeq[1]] = DefaultSeries]
                                 ELSE DefaultModuleMap]
    /\ regRet = [n \in Names |-> IF n = NameSeq[2] THEN [ids |-> {1}, slowHit |-> FALSE] ELSE NoReturns]
    /\ RestInit

\* ------------------------------------------------------- pure operations
\* A plain store in place of the add.
FetchAddStore(c, k) == k

\* AtomicU64::fetch_add(k, Relaxed): one indivisible add.
FetchAdd(c, k) == c + k

\* An insert that replaces the series of the topic.
InsertSeriesFresh(map, t) == [map EXCEPT ![t] = DefaultSeries]
\* BTreeMap::entry(topic).or_insert_with(default): keeps an existing series.
InsertSeries(map, t) == IF map[t].exists THEN map ELSE [map EXCEPT ![t] = DefaultSeries]

\* An insert that replaces the counter of the topic.
InsertCounterReset(counts, t) == [counts EXCEPT ![t] = 0]

\* BTreeMap::entry(topic).or_insert_with(|| AtomicU64::new(0)).
InsertCounter(counts, t) == IF counts[t] # NoCounter THEN counts ELSE [counts EXCEPT ![t] = 0]

\* A registry that hands a name its former module back.
RegisteredModuleReused(mods, n) ==
    IF mods[n] # NoModule THEN mods[n]
    ELSE IF \E m \in retired : owner[m] = n THEN CHOOSE m \in retired : owner[m] = n ELSE nextId

\* A registry that allocates a module on every slow path.
RegisteredModuleFresh(mods, n) == nextId

\* modules.entry(name).or_insert_with(|| Arc::new(ModuleState::default())): the
\* module returned for name, a newly allocated one when the name is absent.
RegisteredModule(mods, n) == IF mods[n] # NoModule THEN mods[n] ELSE nextId

\* A lookup in place of the removal.
RemoveModuleKept(mods, n) == mods

\* modules.remove(name): the map afterwards, and is_some() of what was removed.
RemoveModule(mods, n) == [mods EXCEPT ![n] = NoModule]
UnregisterResult(mods, n) == mods[n] # NoModule

\* now.duration_since(since) under Option::map; duration_since saturates at zero.
PendingDuration(since, now) ==
    IF since = NoInstant THEN NoValue ELSE IF since > now THEN 0 ELSE now - since

\* A rate computed however little time has passed.
compute_rateNoFloor(prev, current_count, now) ==
    IF prev = NoPrev THEN NoRate
    ELSE <<IF current_count > prev[1] THEN current_count - prev[1] ELSE 0,
           IF prev[2] > now THEN 0 ELSE now - prev[2]>>

\* compute_rate: None without a previous sample or under 10 ms; else the pair
\* <<delta, elapsed ms>> standing for delta / elapsed seconds.
compute_rate(prev, current_count, now) ==
    IF prev = NoPrev THEN NoRate
    ELSE LET elapsed == IF prev[2] > now THEN 0 ELSE now - prev[2]
             delta == IF current_count > prev[1] THEN current_count - prev[1] ELSE 0
         IN IF elapsed < RateMinElapsedMs THEN NoRate ELSE <<delta, elapsed>>

\* A saturating difference reported whenever the counter exists.
BacklogSaturating(total, count) ==
    IF total = NoCounter THEN NoValue ELSE IF total > count THEN total - count ELSE 0

\* The backlog of a read series against the topic's global write counter.
Backlog(total, count) ==
    IF total # NoCounter /\ total > count THEN total - count ELSE NoValue

\* The first key at or after position j of a BTreeMap iteration, 0 at the end.
NextTopic(map, j) ==
    LET S == {x \in j..Len(TopicSeq) : map[TopicSeq[x]].exists}
    IN IF S = {} THEN 0 ELSE CHOOSE x \in S : \A y \in S : x <= y
NextMetric(ms, j) ==
    LET S == {x \in j..Len(TopicSeq) : ms[TopicSeq[x]].present}
    IN IF S = {} THEN 0 ELSE CHOOSE x \in S : \A y \in S : x <= y
NextName(mods, i) ==
    LET S == {x \in i..Len(NameSeq) : mods[NameSeq[x]] # NoModule}
    IN IF S = {} THEN 0 ELSE CHOOSE x \in S : \A y \in S : x <= y

\* ------------------------------------------------------------- registry
\* GlobalState::register_module, fast path: the lookup under modules.read().
Register(t, n) ==
    /\ th[t].pc = "idle"
    /\ ~ParkedModules
    /\ calls < MaxCalls
    /\ calls' = calls + 1
    /\ th' = IF modules[n] # NoModule THEN th
             ELSE [th EXCEPT ![t] = [IdleCall EXCEPT !.pc = "reg_slow", !.op = "register", !.name = n]]
    /\ regRet' = IF modules[n] # NoModule THEN [regRet EXCEPT ![n].ids = @ \cup {modules[n]}] ELSE regRet
    /\ UNCHANGED <<tuiVars, sched, modules, nextId, owner, retired, lastUnreg, mapVars, countVars, tokenVars,
                   clock, col>>

\* GlobalState::register_module, slow path: entry().or_insert_with under modules.write().
RegisterSlow(t) ==
    /\ th[t].pc = "reg_slow"
    /\ Collecting = {} /\ CountsWaiting = {}
    /\ LET n == th[t].name
           m == RegisteredModule(modules, n)
       IN /\ modules' = [modules EXCEPT ![n] = m]
          /\ nextId' = IF m = nextId THEN nextId + 1 ELSE nextId
          /\ owner' = [owner EXCEPT ![m] = n]
          /\ regRet' = [regRet EXCEPT ![n] = [ids |-> @.ids \cup {m}, slowHit |-> @.slowHit \/ modules[n] # NoModule]]
    /\ th' = [th EXCEPT ![t] = IdleCall]
    /\ UNCHANGED <<tuiVars, sched, mapVars, countVars, tokenVars, clock, col, retired, lastUnreg, calls>>

\* GlobalState::unregister_module under modules.write().
Unregister(t, n) ==
    /\ th[t].pc = "idle"
    /\ calls < MaxCalls
    /\ calls' = calls + 1
    /\ Collecting = {} /\ CountsWaiting = {}
    /\ modules' = RemoveModule(modules, n)
    /\ lastUnreg' = [name |-> n, ret |-> UnregisterResult(modules, n),
                     was |-> n \in {x \in Names : modules[x] \in Handles},
                     after |-> RemoveModule(modules, n)[n] # NoModule,
                     again |-> modules[n] = NoModule /\ \E m \in retired : owner[m] = n]
    /\ retired' = retired \cup ({modules[n]} \ {NoModule})
    /\ regRet' = [regRet EXCEPT ![n] = NoReturns]
    /\ UNCHANGED <<tuiVars, sched, mapVars, countVars, tokenVars, nextId, owner, clock, th, col>>

\* --------------------------------------------------------------- handle
\* The entry of record_read / record_write / start_* / set_*_pending: the fast
\* path of get_or_create_read / get_or_create_write under the map's read lock.
BeginCall(t, op, m, kind, topic, k, since) ==
    /\ th[t].pc = "idle"
    /\ calls < MaxCalls
    /\ calls' = calls + 1
    /\ m \in Handles
    /\ ~ParkedMap(m, kind)
    /\ th' = [th EXCEPT ![t] = [pc |-> IF SeriesOf(m, kind, topic).exists THEN "apply" ELSE "lookup_slow",
                                op |-> op, mid |-> m, kind |-> kind, topic |-> topic, k |-> k,
                                since |-> since, name |-> NameSeq[1], parked |-> FALSE, raced |-> FALSE]]

\* ModuleHandle::record_read and record_write are called.
Record(t, m, kind, topic, k) ==
    /\ BeginCall(t, "record", m, kind, topic, k, NoInstant)
    /\ issued' = [issued EXCEPT ![<<m, kind, topic>>] = @ + k]
    /\ UNCHANGED <<tuiVars, sched, regVars, mapVars, tokenVars, topic_write_counts, orphanAdds, clock, col>>

\* ModuleHandle::start_read and start_write are called.
StartPending(t, m, kind, topic) ==
    /\ BeginCall(t, "start", m, kind, topic, 0, NoInstant)
    /\ UNCHANGED <<tuiVars, sched, regVars, mapVars, countVars, tokenVars, clock, col>>

\* ModuleHandle::set_read_pending and set_write_pending are called.
SetPending(t, m, kind, topic, since) ==
    /\ BeginCall(t, "set", m, kind, topic, 0, since)
    /\ UNCHANGED <<tuiVars, sched, regVars, mapVars, countVars, tokenVars, clock, col>>

\* get_or_create_read / get_or_create_write, slow path under the map's write lock.
GetOrCreateSlow(t) ==
    /\ th[t].pc = "lookup_slow"
    /\ ~MapLocked(th[t].mid, th[t].kind)
    /\ IF th[t].kind = "r"
       THEN /\ reads' = [reads EXCEPT ![th[t].mid] = InsertSeries(@, th[t].topic)]
            /\ writes' = writes
       ELSE /\ writes' = [writes EXCEPT ![th[t].mid] = InsertSeries(@, th[t].topic)]
            /\ reads' = reads
    /\ th' = [th EXCEPT ![t].pc = "apply", ![t].parked = FALSE,
                        ![t].raced = SeriesOf(th[t].mid, th[t].kind, th[t].topic).exists]
    /\ UNCHANGED <<tuiVars, sched, regVars, countVars, tokenVars, clock, col, calls>>

\* The series of thread t's call with one field replaced.
WithSeries(t, new) ==
    IF th[t].kind = "r"
    THEN /\ reads' = [reads EXCEPT ![th[t].mid][th[t].topic] = new]
         /\ writes' = writes
    ELSE /\ writes' = [writes EXCEPT ![th[t].mid][th[t].topic] = new]
         /\ reads' = reads

\* record_read: count.fetch_add and return.  record_write: count.fetch_add, then
\* the fast path of get_topic_write_counter.
RecordAdd(t) ==
    /\ th[t].pc = "apply" /\ th[t].op = "record"
    /\ th[t].kind = "w" => ~ParkedCounts
    /\ LET s == SeriesOf(th[t].mid, th[t].kind, th[t].topic)
       IN WithSeries(t, [s EXCEPT !.count = FetchAdd(s.count, th[t].k)])
    /\ th' = [th EXCEPT ![t] = IF th[t].kind = "r" THEN IdleCall
                               ELSE [th[t] EXCEPT !.pc = IF topic_write_counts[th[t].topic] # NoCounter
                                                         THEN "gw_add" ELSE "gw_slow"]]
    /\ UNCHANGED <<tuiVars, sched, regVars, countVars, tokenVars, clock, col, calls>>

\* get_topic_write_counter, slow path under topic_write_counts.write().
GlobalCounterSlow(t) ==
    /\ th[t].pc = "gw_slow"
    /\ Collecting = {}
    /\ topic_write_counts' = InsertCounter(topic_write_counts, th[t].topic)
    /\ th' = [th EXCEPT ![t].pc = "gw_add", ![t].parked = FALSE]
    /\ UNCHANGED <<tuiVars, sched, regVars, mapVars, tokenVars, clock, col, issued, orphanAdds, calls>>

\* record_write: global_counter.fetch_add and return.
GlobalAdd(t) ==
    /\ th[t].pc = "gw_add"
    /\ topic_write_counts' = [topic_write_counts EXCEPT ![th[t].topic] = FetchAdd(@, th[t].k)]
    /\ orphanAdds' = IF th[t].mid \in retired THEN [orphanAdds EXCEPT ![th[t].topic] = @ + th[t].k] ELSE orphanAdds
    /\ th' = [th EXCEPT ![t] = IdleCall]
    /\ UNCHANGED <<tuiVars, sched, regVars, mapVars, tokenVars, clock, col, issued, calls>>

\* A start_* that hands out the guard without arming the cell.
ArmedCellUnset(now) == NoInstant
\* The cell after start_read / start_write arms it.
ArmedCell(now) == now

\* A drop that leaves the cell alone.
DroppedCellKept(cell) == cell
\* The cell after a PendingGuard is dropped.
DroppedCell(cell) == NoInstant

\* An override that reads None as "pending since now".
OverrideCellOrNow(since) == IF since = NoInstant THEN clock ELSE since
\* The cell after set_read_pending / set_write_pending(topic, since).
OverrideCell(since) == since

\* start_read / start_write: pending_since = Some(Instant::now()), guard returned.
ArmPending(t) ==
    /\ th[t].pc = "apply" /\ th[t].op = "start"
    /\ LET s == SeriesOf(th[t].mid, th[t].kind, th[t].topic)
           id == <<th[t].mid, th[t].kind, th[t].topic>>
       IN /\ WithSeries(t, [s EXCEPT !.pending_since = ArmedCell(clock)])
          /\ guards' = [guards EXCEPT ![id] = @ + 1]
          /\ overlapped' = [overlapped EXCEPT ![id] = @ \/ guards[id] > released[id]]
          /\ rearmed' = [rearmed EXCEPT ![id] = @ \/ released[id] > 0]
    /\ th' = [th EXCEPT ![t] = IdleCall]
    /\ UNCHANGED <<tuiVars, sched, regVars, countVars, clock, col, released, overridden, lastDrop, calls>>

\* set_read_pending / set_write_pending: pending_since = since.  An override
\* with None releases every token alive on the series.
WritePending(t) ==
    /\ th[t].pc = "apply" /\ th[t].op = "set"
    /\ LET s == SeriesOf(th[t].mid, th[t].kind, th[t].topic)
           id == <<th[t].mid, th[t].kind, th[t].topic>>
       IN /\ WithSeries(t, [s EXCEPT !.pending_since = OverrideCell(th[t].since)])
          /\ overridden' = [overridden EXCEPT ![id] = TRUE]
          /\ released' = [released EXCEPT ![id] = IF th[t].since = NoInstant THEN guards[id] ELSE @]
          /\ rearmed' = [rearmed EXCEPT ![id] = IF th[t].since = NoInstant THEN FALSE
                                                ELSE @ \/ released[id] > 0]
    /\ th' = [th EXCEPT ![t] = IdleCall]
    /\ UNCHANGED <<tuiVars, sched, regVars, countVars, clock, col, guards, overlapped, lastDrop, calls>>

\* Drop for PendingGuard, on every exit path of the holder (return, early
\* return, unwinding): pending_since = None.  wasReleased picks a token that a
\* set_*_pending(None) override had released already.
DropGuard(t, id, wasReleased) ==
    /\ th[t].pc = "idle"
    /\ IF wasReleased THEN released[id] > 0 ELSE guards[id] > released[id]
    /\ LET s == SeriesOf(id[1], id[2], id[3])
           new == [s EXCEPT !.pending_since = DroppedCell(s.pending_since)]
       IN IF id[2] = "r"
          THEN reads' = [reads EXCEPT ![id[1]][id[3]] = new] /\ writes' = writes
          ELSE writes' = [writes EXCEPT ![id[1]][id[3]] = new] /\ reads' = reads
    /\ guards' = [guards EXCEPT ![id] = @ - 1]
    /\ released' = [released EXCEPT ![id] = IF wasReleased THEN @ - 1 ELSE @]
    /\ rearmed' = [rearmed EXCEPT ![id] = IF released'[id] = 0 THEN FALSE ELSE @]
    /\ lastDrop' = [done |-> TRUE, id |-> id, wasReleased |-> wasReleased,
                    before |-> SeriesOf(id[1], id[2], id[3]).pending_since,
                    after |-> DroppedCell(SeriesOf(id[1], id[2], id[3]).pending_since),
                    rearmed |-> rearmed[id]]
    /\ UNCHANGED <<tuiVars, sched, regVars, countVars, clock, th, col, overlapped, overridden, calls>>

\* Time passes.
Tick(d) ==
    /\ calls < MaxCalls
    /\ calls' = calls + 1
    /\ clock' = clock + d
    /\ UNCHANGED <<tuiVars, sched, regVars, mapVars, countVars, tokenVars, th, col>>

\* -------------------------------------------------------------- collect
\* GlobalState::collect, after a module's metrics are complete:
\* snapshot.module_metrics(name, metrics), and on to the next module.
FinishModule(c) ==
    <<"c_mod", [c EXCEPT !.out[NameSeq[c.i]] = c.acc, !.i = c.i + 1, !.j = 0, !.mid = NoModule,
                         !.now = 0, !.acc = NoModuleMetrics]>>

\* GlobalState::collect: the loop over metrics.reads that resolves backlog.
EnterBacklog(c) ==
    LET j == NextMetric(c.acc.reads, 1)
    IN IF j # 0 THEN <<"c_backlog", [c EXCEPT !.j = j]>> ELSE FinishModule(c)

\* ModuleState::collect: the reads lock is released, self.writes.read() taken.
EnterWrites(c) ==
    LET j == NextTopic(writes[c.mid], 1)
    IN IF j # 0 THEN <<"c_wload", [c EXCEPT !.j = j]>> ELSE EnterBacklog(c)

\* ModuleState::collect begins on module m: now = Instant::now(), self.reads.read().
EnterModule(c, i, m) ==
    LET c1 == [c EXCEPT !.i = i, !.mid = m, !.now = clock,
                        !.acc = [NoModuleMetrics EXCEPT !.present = TRUE, !.id = m]]
        j == NextTopic(reads[m], 1)
    IN IF j # 0 THEN <<"c_rload", [c1 EXCEPT !.j = j]>> ELSE EnterWrites(c1)

\* The counts of all read series, remembered when a collect starts.
ReadCounts == [m \in ModIds |-> [t \in Topics |-> reads[m][t].count]]

\* The threads holding a snapshot that a collect has returned to them.
Returned == {x \in Threads : th[x].pc = "c_done"}

\* GlobalState::collect is called: modules.read() and topic_write_counts.read().
\* after: the snapshots that had been returned before this call.
CollectBegin(t) ==
    /\ th[t].pc = "idle"
    /\ ~ParkedModules
    /\ calls < MaxCalls
    /\ calls' = calls + 1
    /\ th' = [th EXCEPT ![t] = [IdleCall EXCEPT !.pc = AfterModulesRead, !.op = "collect"]]
    /\ col' = [col EXCEPT ![t] = [IdleCollect EXCEPT !.i = 1, !.base = ReadCounts, !.after = Returned \ {t}]]
    /\ UNCHANGED <<tuiVars, sched, regVars, mapVars, countVars, tokenVars, clock>>

\* for (name, state) in modules.iter(): the next module, or snapshot.build().
CollectModule(t) ==
    /\ th[t].pc = "c_mod"
    /\ LET i == NextName(modules, col[t].i)
           nxt == EnterModule(col[t], i, modules[NameSeq[i]])
       IN IF i = 0
          THEN /\ th' = [th EXCEPT ![t].pc = "c_done"]
               /\ col' = col
          ELSE /\ ~ParkedMap(modules[NameSeq[i]], "r")
               /\ nxt[1] # "c_rload" => ~ParkedMap(modules[NameSeq[i]], "w")
               /\ th' = [th EXCEPT ![t].pc = nxt[1]]
               /\ col' = [col EXCEPT ![t] = nxt[2]]
    /\ UNCHANGED <<tuiVars, sched, regVars, mapVars, countVars, tokenVars, clock, calls>>

\* ModuleState::collect, per series: count.load, pending_since.read(),
\* prev_snapshot.read() and compute_rate.
CollectLoad(t) ==
    /\ th[t].pc \in {"c_rload", "c_wload"}
    /\ LET c == col[t]
           s == SeriesOf(c.mid, IF th[t].pc = "c_rload" THEN "r" ELSE "w", TopicSeq[c.j])
       IN col' = [col EXCEPT ![t] = [c EXCEPT !.count = s.count,
                                              !.pending = PendingDuration(s.pending_since, c.now),
                                              !.rate = compute_rate(s.prev_snapshot, s.count, c.now)]]
    /\ th' = [th EXCEPT ![t].pc = IF th[t].pc = "c_rload" THEN "c_rmemo" ELSE "c_wmemo"]
    /\ UNCHANGED <<tuiVars, sched, regVars, mapVars, countVars, tokenVars, clock, calls>>

\* ModuleState::collect, per series: *prev_snapshot.write() = Some((count, now)),
\* the metrics entry, and the next key of the map.
CollectMemo(t) ==
    /\ th[t].pc \in {"c_rmemo", "c_wmemo"}
    /\ LET c == col[t]
           topic == TopicSeq[c.j]
           metric == [NoMetric EXCEPT !.present = TRUE, !.count = c.count,
                                       !.pending = c.pending, !.rate = c.rate]
           clear == [c EXCEPT !.count = 0, !.pending = NoValue, !.rate = NoRate]
       IN IF th[t].pc = "c_rmemo"
          THEN LET c1 == [clear EXCEPT !.acc.reads[topic] = metric]
                   j == NextTopic(reads[c.mid], c.j + 1)
                   nxt == IF j # 0 THEN <<"c_rload", [c1 EXCEPT !.j = j]>> ELSE EnterWrites(c1)
               IN /\ j = 0 => ~ParkedMap(c.mid, "w")
                  /\ reads' = [reads EXCEPT ![c.mid][topic].prev_snapshot = <<c.count, c.now>>]
                  /\ writes' = writes
                  /\ th' = [th EXCEPT ![t].pc = nxt[1]]
                  /\ col' = [col EXCEPT ![t] = nxt[2]]
          ELSE LET c1 == [clear EXCEPT !.acc.writes[topic] = metric]
                   j == NextTopic(writes[c.mid], c.j + 1)
                   nxt == IF j # 0 THEN <<"c_wload", [c1 EXCEPT !.j = j]>> ELSE EnterBacklog(c1)
               IN /\ writes' = [writes EXCEPT ![c.mid][topic].prev_snapshot = <<c.count, c.now>>]
                  /\ reads' = reads
                  /\ th' = [th EXCEPT ![t].pc = nxt[1]]
                  /\ col' = [col EXCEPT ![t] = nxt[2]]
    /\ UNCHANGED <<tuiVars, sched, regVars, countVars, tokenVars, clock, calls>>

\* GlobalState::collect, per read topic: topic_writes.get(topic), total.load and
\* the backlog.  The metric keeps the total it was resolved against, and the
\* part of it that handles of unregistered modules had added.
CollectBacklog(t) ==
    /\ th[t].pc = "c_backlog"
    /\ LET c == col[t]
           topic == TopicSeq[c.j]
           total == topic_write_counts[topic]
           c1 == [c EXCEPT !.acc.reads[topic].backlog = Backlog(total, c.acc.reads[topic].count),
                           !.acc.reads[topic].total = total,
                           !.acc.reads[topic].orphan = orphanAdds[topic]]
           j == NextMetric(c.acc.reads, c.j + 1)
           nxt == IF j # 0 THEN <<"c_backlog", [c1 EXCEPT !.j = j]>> ELSE FinishModule(c1)
       IN /\ th' = [th EXCEPT ![t].pc = nxt[1]]
          /\ col' = [col EXCEPT ![t] = nxt[2]]
    /\ UNCHANGED <<tuiVars, sched, regVars, mapVars, countVars, tokenVars, clock, calls>>

\* The caller is done with the snapshot it was returned.
Consume(t) ==
    /\ th[t].pc = "c_done"
    /\ th' = [th EXCEPT ![t] = IdleCall]
    /\ col' = [x \in Tasks |-> IF x = t THEN IdleCollect ELSE [col[x] EXCEPT !.after = @ \ {t}]]
    /\ UNCHANGED <<tuiVars, sched, regVars, mapVars, countVars, tokenVars, clock, calls>>

\* GlobalState::collect holding modules.read(): topic_write_counts.read() is
\* granted once no writer is parked on it.
CollectCounts(t) ==
    /\ th[t].pc = "c_twc"
    /\ ~ParkedCounts
    /\ th' = [th EXCEPT ![t].pc = "c_mod"]
    /\ UNCHANGED <<tuiVars, sched, regVars, mapVars, countVars, tokenVars, clock, col, calls>>

\* The write() of a slow path finds its lock read-locked and parks.
Park(t) ==
    /\ ~th[t].parked
    /\ \/ th[t].pc = "reg_slow" /\ (Collecting # {} \/ CountsWaiting # {})
       \/ th[t].pc = "gw_slow" /\ Collecting # {}
       \/ th[t].pc = "lookup_slow" /\ MapLocked(th[t].mid, th[t].kind)
    /\ th' = [th EXCEPT ![t].parked = TRUE]
    /\ UNCHANGED <<tuiVars, sched, regVars, mapVars, countVars, tokenVars, clock, col, calls>>

\* -------------------------------------------------------- specification
RegistryStep ==
    \/ \E t \in Threads, n \in Names : Register(t, n)
    \/ \E t \in Threads : RegisterSlow(t)
    \/ \E t \in Threads, n \in Names : Unregister(t, n)

RecordStep ==
    \/ \E t \in Threads, m \in ModIds, kind \in Kinds, topic \in Topics, k \in Increments :
          Record(t, m, kind, topic, k)
    \/ \E t \in Threads : RecordAdd(t)
    \/ \E t \in Threads : GlobalCounterSlow(t)
    \/ \E t \in Threads : GlobalAdd(t)

PendingStep ==
    \/ \E t \in Threads, m \in ModIds, kind \in Kinds, topic \in Topics :
          StartPending(t, m, kind, topic)
    \/ \E t \in Threads, m \in ModIds, kind \in Kinds, topic \in Topics, since \in {NoInstant, clock} :
          SetPending(t, m, kind, topic, since)
    \/ \E t \in Threads : ArmPending(t)
    \/ \E t \in Threads : WritePending(t)
    \/ \E t \in Threads, id \in SeriesIds, wasReleased \in BOOLEAN : DropGuard(t, id, wasReleased)

CollectStep ==
    \/ \E t \in Threads : CollectBegin(t)
    \/ \E t \in Threads : CollectModule(t)
    \/ \E t \in Threads : CollectLoad(t)
    \/ \E t \in Threads : CollectMemo(t)
    \/ \E t \in Threads : CollectBacklog(t)
    \/ \E t \in Threads : Consume(t)

SlowPathStep == \E t \in Threads : GetOrCreateSlow(t)

TimeStep == \E d \in ClockSteps : Tick(d)

\* Threads that register, unregister, record and collect.
CountNext == RegistryStep \/ RecordStep \/ CollectStep \/ SlowPathStep
CountSpec == Init /\ [][CountNext]_vars

\* Threads that register, unregister and record, with no collect beside them.
RaceNext == RegistryStep \/ RecordStep \/ SlowPathStep
RaceSpec == Init /\ [][RaceNext]_vars

\* Threads that register one module, track pending operations on its series and
\* collect while time passes.
RegisterStep ==
    \/ \E t \in Threads : Register(t, NameSeq[1])
    \/ \E t \in Threads : RegisterSlow(t)

PendingNext == RegisterStep \/ PendingStep \/ CollectStep \/ SlowPathStep \/ TimeStep
PendingSpec == Init /\ [][PendingNext]_vars

\* Beside a registered reader, one thread registers and unregisters the
\* other name and records through every handle, and the other thread
\* records and collects.
OrphanNext ==
    \/ Register("T1", NameSeq[1])
    \/ RegisterSlow("T1")
    \/ Unregister("T1", NameSeq[1])
    \/ RecordStep
    \/ SlowPathStep
    \/ CollectBegin("T2")
    \/ CollectModule("T2")
    \/ CollectLoad("T2")
    \/ CollectMemo("T2")
    \/ CollectBacklog("T2")
    \/ Consume("T2")
OrphanSpec == OrphanInit /\ [][OrphanNext]_vars

\* Threads that register one module, record on its series and collect while
\* time passes.
RateNext == RegisterStep \/ RecordStep \/ CollectStep \/ SlowPathStep \/ TimeStep
RateSpec == Init /\ [][RateNext]_vars

\* ------------------------------------------------------- emission task
\* Output::emit: Ok or Err.  File: serialisation and the write both propagate
\* with `?`.  Tcp: a failed connect is ignored, serialisation propagates, the
\* writes are ignored.  Channel: try_send's result is ignored.
EmitResult(kind, ioOk, jsonOk) ==
    IF kind = "file" THEN (IF jsonOk /\ ioOk THEN "ok" ELSE "err")
    ELSE IF kind = "tcp" THEN (IF ioOk /\ ~jsonOk THEN "err" ELSE "ok")
    ELSE "ok"

\* An error that propagates out of the task.
AfterEmitPropagate(res) == IF res = "err" THEN "done" ELSE "round"
\* let _ = output.emit(&snapshot).await: the result is discarded.
AfterEmit(res) == "round"

\* A stop branch that goes round the loop whatever the value.
AfterChangedLoop(value) == "select"
\* if *stop_rx.borrow() { break; }
AfterChanged(value) == IF value THEN "done" ELSE "select"

\* Instrumentor::start: watch::channel(false), the task is spawned with a new
\* interval timer, whose first tick completes at once; the handle is returned.
Start ==
    /\ sched.pc = "idle"
    /\ sched' = [sched EXCEPT !.pc = "select", !.handle = "held", !.tickReady = TRUE]
    /\ UNCHANGED <<tuiVars, regVars, mapVars, countVars, tokenVars, clock, th, col, calls>>

\* The interval elapses: interval_timer.tick() is ready.
TimerFire ==
    /\ sched.pc \in {"select", "round"}
    /\ ~sched.tickReady
    /\ sched' = [sched EXCEPT !.tickReady = TRUE]
    /\ UNCHANGED <<tuiVars, regVars, mapVars, countVars, tokenVars, clock, th, col, calls>>

\* select! takes the tick branch: state.collect() begins.
SelectTick ==
    /\ sched.pc = "select"
    /\ sched.tickReady
    /\ sched.round < MaxRounds
    /\ ~ParkedModules
    /\ th' = [th EXCEPT ![Emitter] = [IdleCall EXCEPT !.pc = AfterModulesRead, !.op = "collect"]]
    /\ col' = [col EXCEPT ![Emitter] = [IdleCollect EXCEPT !.i = 1, !.base = ReadCounts]]
    /\ sched' = [sched EXCEPT !.pc = "round", !.tickReady = FALSE, !.round = @ + 1, !.ix = 1]
    /\ UNCHANGED <<tuiVars, regVars, mapVars, countVars, tokenVars, clock, calls>>

\* A send that makes room by evicting the oldest queued snapshot.
try_sendEvict(q, v) == IF Len(q) < ChannelBuffer THEN Append(q, v) ELSE Append(Tail(q), v)
\* mpsc::Sender::try_send: enqueues when the channel has room, and returns
\* at once with the queue as it was when it is full.
try_send(q, v) == IF Len(q) < ChannelBuffer THEN Append(q, v) ELSE q

\* for output in outputs.iter(): output.emit(&snapshot) is called on the next
\* output.
EmitCall ==
    /\ sched.pc = "round"
    /\ th[Emitter].pc = "c_done"
    /\ sched.ix <= Len(OutputSeq)
    /\ sched.busy = 0
    /\ sched' = [sched EXCEPT !.busy = sched.ix]
    /\ UNCHANGED <<tuiVars, regVars, mapVars, countVars, tokenVars, clock, th, col, calls>>

\* The emit of the task returns; a Channel output has tried to enqueue the
\* round's snapshot.
Emit(ioOk, jsonOk) ==
    /\ sched.pc = "round"
    /\ th[Emitter].pc = "c_done"
    /\ sched.ix <= Len(OutputSeq)
    /\ sched.busy = sched.ix
    /\ LET res == EmitResult(OutputSeq[sched.ix], ioOk, jsonOk)
           channel == OutputSeq[sched.ix] = "channel"
       IN sched' = [sched EXCEPT !.pc = AfterEmit(res),
                                 !.ix = @ + 1,
                                 !.busy = 0,
                                 !.queue = IF channel THEN try_send(@, sched.round) ELSE @,
                                 !.dropped = IF channel /\ Len(sched.queue) >= ChannelBuffer THEN sched.round ELSE @,
                                 !.invoked[sched.ix] = sched.round,
                                 !.failedRound = IF res = "err" /\ @ = 0 THEN sched.round ELSE @]
    /\ UNCHANGED <<tuiVars, regVars, mapVars, countVars, tokenVars, clock, th, col, calls>>

\* The for loop is over: the snapshot is dropped, back to select!.
RoundEnd ==
    /\ sched.pc = "round"
    /\ th[Emitter].pc = "c_done"
    /\ sched.ix > Len(OutputSeq)
    /\ sched' = [sched EXCEPT !.pc = "select", !.ix = 1]
    /\ th' = [th EXCEPT ![Emitter] = IdleCall]
    /\ col' = [col EXCEPT ![Emitter] = IdleCollect]
    /\ UNCHANGED <<tuiVars, regVars, mapVars, countVars, tokenVars, clock, calls>>

\* select! takes the stop branch: stop_rx.changed() completes, with Ok when a
\* value is unseen and with Err when the sender is gone; either way the branch
\* runs and breaks only on a true value.
SelectStop ==
    /\ sched.pc = "select"
    /\ sched.unseen \/ sched.closed
    /\ sched' = [sched EXCEPT !.pc = AfterChanged(sched.value),
                              !.unseen = FALSE,
                              !.closedSeen = @ \/ ~sched.unseen]
    /\ UNCHANGED <<tuiVars, regVars, mapVars, countVars, tokenVars, clock, th, col, calls>>

\* EmissionHandle::stop(self): stop_tx.send(true), then the sender is dropped.
Stop ==
    /\ sched.handle = "held"
    /\ sched' = [sched EXCEPT !.handle = "stopped", !.value = TRUE, !.unseen = TRUE, !.closed = TRUE,
                              !.stoppedIn = sched.pc]
    /\ UNCHANGED <<tuiVars, regVars, mapVars, countVars, tokenVars, clock, th, col, calls>>

\* The EmissionHandle is dropped: there is no Drop impl, the sender is dropped.
DropHandle ==
    /\ sched.handle = "held"
    /\ sched' = [sched EXCEPT !.handle = "dropped", !.closed = TRUE]
    /\ UNCHANGED <<tuiVars, regVars, mapVars, countVars, tokenVars, clock, th, col, calls>>

\* The steps of the emission task.
TaskStep ==
    \/ SelectTick
    \/ CollectModule(Emitter)
    \/ CollectLoad(Emitter)
    \/ CollectMemo(Emitter)
    \/ CollectBacklog(Emitter)
    \/ EmitCall
    \/ \E ioOk \in BOOLEAN, jsonOk \in BOOLEAN : Emit(ioOk, jsonOk)
    \/ RoundEnd
    \/ SelectStop

\* The application around it: one thread registers a module and records.
ClientStep ==
    \/ calls < MaxClientCalls /\ Register("T1", NameSeq[1])
    \/ RegisterSlow("T1")
    \/ \E kind \in Kinds : calls < MaxClientCalls /\ Record("T1", 1, kind, TopicSeq[1], 1)
    \/ GetOrCreateSlow("T1")
    \/ RecordAdd("T1")
    \/ GlobalCounterSlow("T1")
    \/ GlobalAdd("T1")

SchedNext == Start \/ TimerFire \/ TaskStep \/ Stop \/ DropHandle \/ ClientStep
SchedSpec == Init /\ [][SchedNext]_vars

\* tokio polls the spawned task whenever it can make progress, and select!
\* picks among its ready branches at random, so a stop branch that is ready
\* again and again is taken.
FairSchedSpec ==
    /\ SchedSpec
    /\ WF_vars(CollectModule(Emitter) \/ CollectLoad(Emitter) \/ CollectMemo(Emitter)
               \/ CollectBacklog(Emitter) \/ RoundEnd \/ EmitCall
               \/ \E ioOk \in BOOLEAN, jsonOk \in BOOLEAN : Emit(ioOk, jsonOk))
    /\ SF_vars(SelectStop)

\* The holder of the channel's Receiver takes the oldest queued snapshot.
ChannelRecv ==
    /\ sched.queue # <<>>
    /\ sched' = [sched EXCEPT !.queue = Tail(@)]
    /\ UNCHANGED <<tuiVars, regVars, mapVars, countVars, tokenVars, clock, th, col, calls>>

\* The emission task with a Channel output whose receiver drains it or not.
ChannelNext == SchedNext \/ ChannelRecv
ChannelSpec == Init /\ [][ChannelNext]_vars

\* Instrumentor::emit_now on the caller's own task: state.collect() begins.
EmitNow(t) ==
    /\ th[t].pc = "idle"
    /\ ~ParkedModules
    /\ calls < MaxClientCalls
    /\ calls' = calls + 1
    /\ th' = [th EXCEPT ![t] = [IdleCall EXCEPT !.pc = AfterModulesRead, !.op = "emit_now"]]
    /\ col' = [col EXCEPT ![t] = [IdleCollect EXCEPT !.i = 1, !.base = ReadCounts, !.after = Returned \ {t}]]
    /\ sched' = [sched EXCEPT !.now = [ix |-> 1, busy |-> 0]]
    /\ UNCHANGED <<tuiVars, regVars, mapVars, countVars, tokenVars, clock>>

\* for output in self.outputs.iter(): emit_now calls output.emit(&snapshot)
\* on the next output, whatever the spawned task is doing.
NowEmitCall(t) ==
    /\ th[t].pc = "c_done"
    /\ th[t].op = "emit_now"
    /\ sched.now.ix <= Len(OutputSeq)
    /\ sched.now.busy = 0
    /\ sched' = [sched EXCEPT !.now.busy = sched.now.ix]
    /\ UNCHANGED <<tuiVars, regVars, mapVars, countVars, tokenVars, clock, th, col, calls>>

\* That emit returns and its result is discarded; a Channel output has tried
\* to enqueue the snapshot, which is of no round and queued as 0.
NowEmit(t) ==
    /\ th[t].pc = "c_done"
    /\ th[t].op = "emit_now"
    /\ sched.now.busy # 0
    /\ sched' = [sched EXCEPT !.now = [ix |-> @.ix + 1, busy |-> 0],
                              !.queue = IF OutputSeq[sched.now.busy] = "channel" THEN try_send(@, 0) ELSE @]
    /\ UNCHANGED <<tuiVars, regVars, mapVars, countVars, tokenVars, clock, th, col, calls>>

\* emit_now returns after the last output.
NowReturn(t) ==
    /\ th[t].pc = "c_done"
    /\ th[t].op = "emit_now"
    /\ sched.now.ix > Len(OutputSeq)
    /\ th' = [th EXCEPT ![t] = IdleCall]
    /\ col' = [x \in Tasks |-> IF x = t THEN IdleCollect ELSE [col[x] EXCEPT !.after = @ \ {t}]]
    /\ sched' = [sched EXCEPT !.now = [ix |-> 1, busy |-> 0]]
    /\ UNCHANGED <<tuiVars, regVars, mapVars, countVars, tokenVars, clock, calls>>

EmitNowStep ==
    \/ EmitNow("T2")
    \/ CollectModule("T2")
    \/ CollectLoad("T2")
    \/ CollectMemo("T2")
    \/ CollectBacklog("T2")
    \/ NowEmitCall("T2")
    \/ NowEmit("T2")
    \/ NowReturn("T2")

\* The emission task, and the application calling emit_now beside it.
EmitNowNext == SchedNext \/ EmitNowStep
EmitNowSpec == Init /\ [][EmitNowNext]_vars

\* The application's thread beside the two collectors: it registers and
\* unregisters, records, and tracks a pending read with a token.
LockClientStep ==
    \/ ClientStep
    \/ calls < MaxClientCalls /\ Unregister("T1", NameSeq[2])
    \/ calls < MaxClientCalls /\ StartPending("T1", 1, "r", TopicSeq[1])
    \/ ArmPending("T1")
    \/ calls < MaxClientCalls /\ SetPending("T1", 1, "r", TopicSeq[1], NoInstant)
    \/ WritePending("T1")
    \/ DropGuard("T1", <<1, "r", TopicSeq[1]>>, FALSE)
    \/ Park("T1")

\* A second thread of the application calls collect.
LockCollectStep ==
    \/ calls < MaxClientCalls /\ CollectBegin("T2")
    \/ CollectCounts("T2")
    \/ CollectModule("T2")
    \/ CollectLoad("T2")
    \/ CollectMemo("T2")
    \/ CollectBacklog("T2")
    \/ Consume("T2")

\* The emission task up to the end of its first round, with outputs that
\* succeed.
LockTaskStep ==
    \/ Start
    \/ sched.round = 0 /\ SelectTick
    \/ CollectCounts(Emitter)
    \/ CollectModule(Emitter)
    \/ CollectLoad(Emitter)
    \/ CollectMemo(Emitter)
    \/ CollectBacklog(Emitter)
    \/ EmitCall
    \/ Emit(TRUE, TRUE)
    \/ RoundEnd

\* The emission task, a thread that collects and the application's thread
\* on a registry that has a reader, with writers that park behind readers.
LockNext == LockTaskStep \/ LockClientStep \/ LockCollectStep
LockSpec == OrphanInit /\ [][LockNext]_vars

\* The steps of a call on the registry that thread t is inside of.
CallStep(t) ==
    \/ RegisterSlow(t) \/ Park(t) \/ GetOrCreateSlow(t) \/ RecordAdd(t) \/ GlobalCounterSlow(t) \/ GlobalAdd(t)
    \/ ArmPending(t) \/ WritePending(t)
    \/ CollectCounts(t) \/ CollectModule(t) \/ CollectLoad(t) \/ CollectMemo(t) \/ CollectBacklog(t)

\* The operating system runs every thread that can run, and parking_lot
\* hands a released lock to the thread parked on it.
FairLockSpec == LockSpec /\ \A t \in Tasks : WF_vars(CallStep(t))

\* ------------------------------------------------------- the file source
\* FileSource::get_modified_time: None when the metadata cannot be read.
get_modified_time(f) == IF f.exists THEN f.mtime ELSE NoMtime

\* The match on (last_modified, current_modified) in FileSource::poll.
file_changed(last, current) ==
    IF last = NoMtime THEN TRUE ELSE IF current = NoMtime THEN FALSE ELSE current > last

\* FileSource::read_file: the error it leaves and the snapshot it returns.
read_file(f) ==
    IF ~f.exists THEN [error |-> "Read error", snapshot |-> NoSnapshot]
    ELSE IF ~f.valid THEN [error |-> "Parse error", snapshot |-> NoSnapshot]
    ELSE [error |-> NoError, snapshot |-> f.ver]

\* A failed read moving the cursor to the mtime it saw.
FailedCursorAdvanced(last, current) == current

\* The remembered mtime after a read that failed: poll assigns
\* last_modified only beside the snapshot it returns.
FailedCursor(last, current) == last

\* FileSource::poll up to its stat of the file.
FilePollStat(f) == [f EXCEPT !.pc = "stat", !.current_modified = get_modified_time(f), !.polls = @ + 1]

\* FileSource::poll from the comparison on: the source after the poll, with
\* the snapshot returned in last.result.
FilePollRead(f) ==
    LET changed == file_changed(f.last_modified, f.current_modified)
        r == read_file(f)
        ok == changed /\ r.snapshot # NoSnapshot
    IN  [f EXCEPT !.pc = "idle",
                  !.last_error = IF changed THEN r.error ELSE @,
                  !.last_modified = IF ok THEN f.current_modified
                                    ELSE IF changed THEN FailedCursor(@, f.current_modified) ELSE @,
                  !.cached_snapshot = IF ok THEN r.snapshot ELSE @,
                  !.returned = IF ok THEN Append(@, r.snapshot) ELSE @,
                  !.last = [done |-> TRUE, result |-> IF ok THEN r.snapshot ELSE NoSnapshot,
                            tried |-> changed, sawFile |-> f.current_modified # NoMtime,
                            sawMtime |-> f.current_modified, readValid |-> f.exists /\ f.valid,
                            cursorBefore |-> f.last_modified,
                            prevFailed |-> f.last.done /\ f.last.tried /\ f.last.result = NoSnapshot,
                            prevSawMtime |-> f.last.sawMtime]]

\* FileSource::error.
FileError(f) == f.last_error

\* Another process writes the file: the content parses or not, and the
\* mtime advances or stays within the filesystem's resolution.
WriteFile(valid, adv, snap) ==
    /\ file.writes < MaxWrites
    /\ file' = [file EXCEPT !.exists = TRUE, !.valid = valid, !.ver = file.writes + 1, !.snap = snap,
                            !.mtime = @ + adv, !.writes = @ + 1]
    /\ UNCHANGED <<sdkVars, sideVars, stream, chan, app>>

\* Another process removes the file.
RemoveFile ==
    /\ file.writes < MaxWrites
    /\ file.exists
    /\ file' = [file EXCEPT !.exists = FALSE, !.writes = @ + 1]
    /\ UNCHANGED <<sdkVars, sideVars, stream, chan, app>>

\* A caller of FileSource::poll, up to the stat.
PollStat ==
    /\ file.pc = "idle"
    /\ app.pc = "idle"
    /\ file.polls < MaxPolls
    /\ file' = FilePollStat(file)
    /\ UNCHANGED <<sdkVars, sideVars, stream, chan, app>>

\* The same call from the comparison to its return.
PollRead ==
    /\ file.pc = "stat"
    /\ app.pc = "idle"
    /\ file' = FilePollRead(file)
    /\ UNCHANGED <<sdkVars, sideVars, stream, chan, app>>

WriterStep == RemoveFile \/ \E valid \in BOOLEAN, adv \in {0, 1}, snap \in SnapshotIds : WriteFile(valid, adv, snap)

FileNext == WriterStep \/ PollStat \/ PollRead
FileSpec == Init /\ [][FileNext]_vars

\* Output::emit on a File output, tokio::fs::write up to its open: the file
\* is created or truncated, so it is there and empty.
FileEmitOpen(adv) ==
    /\ ~file.emitting
    /\ file.writes < MaxWrites
    /\ file' = [file EXCEPT !.exists = TRUE, !.valid = FALSE, !.mtime = @ + adv, !.emitting = TRUE]
    /\ UNCHANGED <<sdkVars, sideVars, stream, chan, app>>

\* The rest of a tokio::fs::write that succeeds: the document is written
\* whole.
FileEmitWrite(adv) ==
    /\ file.emitting
    /\ file' = [file EXCEPT !.valid = TRUE, !.ver = file.writes + 1,
                            !.mtime = @ + adv, !.writes = @ + 1, !.emitting = FALSE]
    /\ UNCHANGED <<sdkVars, sideVars, stream, chan, app>>

\* The File output of the instrumented process and a viewer's FileSource on
\* the same path.
FileEmitNext ==
    \/ \E adv \in {0, 1} : FileEmitOpen(adv)
    \/ \E adv \in {0, 1} : FileEmitWrite(adv)
    \/ PollStat
    \/ PollRead
FileEmitSpec == Init /\ [][FileEmitNext]_vars

\* ------------------------------------------------------------ the viewer
\* History::record on the timestamps deque: push, then pop beyond the cap.
HistoryRecord(h) == IF h + 1 > MAX_HISTORY_SIZE THEN h ELSE h + 1

\* VecDeque::push_back, then pop_front beyond MAX_HISTORY_SIZE.
PushCapped(q, v) == IF Len(q) + 1 > MAX_HISTORY_SIZE THEN Tail(Append(q, v)) ELSE Append(q, v)

\* History::record: the counts of every module of the data are pushed on
\* the module's deques, and the data's instant on the one timestamps deque.
record(h, data) ==
    [h EXCEPT !.module_reads = [n \in Names |-> IF n \in data.present
                                                 THEN PushCapped(@[n], data.point[n].total_read) ELSE @[n]],
              !.module_writes = [n \in Names |-> IF n \in data.present
                                                  THEN PushCapped(@[n], data.point[n].total_written) ELSE @[n]],
              !.at = [n \in Names |-> IF n \in data.present THEN PushCapped(@[n], data.last_updated) ELSE @[n]],
              !.timestamps = PushCapped(@, data.last_updated),
              !.now = data.last_updated]

\* History::get_read_rate, the rate as the pair it divides: the last two
\* counts of the module over the last two timestamps of the history.
get_read_rate(h, n) ==
    LET r == h.module_reads[n]
        ts == h.timestamps
    IN  IF Len(r) < 2 \/ Len(ts) < 2 THEN NoRate
        ELSE LET elapsed == ts[Len(ts)] - ts[Len(ts) - 1]
             IN  IF elapsed > 0 THEN [delta |-> r[Len(r)] - r[Len(r) - 1], elapsed |-> elapsed] ELSE NoRate

\* Two rates are the same quotient.
SameRate(x, y) ==
    IF x = NoRate \/ y = NoRate THEN x = y ELSE x.delta * y.elapsed = y.delta * x.elapsed

\* The totals a module of a snapshot carries.
ModulePoints == {[total_read |-> 1, total_written |-> 0], [total_read |-> 3, total_written |-> 2]}

\* App::reload_data records a MonitorData: some modules, each with its
\* totals, stamped Instant::now() by from_snapshot.
RecordSnapshot(present, point, adv) ==
    /\ Len(history.timestamps) < MaxRecords
    /\ history' = record(history, [present |-> present, point |-> point, last_updated |-> history.now + adv])
    /\ UNCHANGED <<sdkVars, file, stream, chan, app, adapter>>

HistoryNext ==
    \E present \in SUBSET Names, point \in [Names -> ModulePoints], adv \in {0, 1, 2} :
        RecordSnapshot(present, point, adv)
HistorySpec == Init /\ [][HistoryNext]_vars

\* ----------------------------------------------------------- the adapters
\* The partitions of a topic as the broker reports them for a group: the
\* committed offset (NoValue for an Offset that is not Offset::Offset), the
\* high watermark, and whether fetch_watermarks answers.
Partitions == [offset : {NoValue, 1, 3}, high : {0, 2, 4}, wmOk : BOOLEAN]
PartitionLists == [1..2 -> Partitions]

RECURSIVE SumOver(_, _)
\* The sum of f over the elements of a sequence.
SumOver(f, xs) == IF xs = <<>> THEN 0 ELSE f[xs[1]] + SumOver(f, Tail(xs))

\* No entry for the topic in the reads of the group.
NoReadMetrics == [present |-> FALSE, count |-> 0, backlog |-> NoValue]

\* KafkaAdapter::collect_group_metrics for one topic of the metadata: the
\* entry it inserts in reads, if any.
collect_group_metrics(parts, committedOk) ==
    LET committed == SelectSeq(parts, LAMBDA e : e.offset # NoValue)
        total_offset == SumOver([e \in Partitions |-> e.offset], committed)
        total_lag == SumOver([e \in Partitions |-> IF e.wmOk THEN e.high - e.offset ELSE 0], committed)
        has_offsets == committed # <<>>
    IN  IF ~committedOk \/ ~has_offsets THEN NoReadMetrics
        ELSE [present |-> TRUE, count |-> total_offset,
              backlog |-> IF total_lag >= 0 THEN total_lag ELSE NoValue]

\* KafkaAdapter::collect_group on a group with one topic.
CollectGroup(parts, committedOk) ==
    /\ adapter.pc = "idle"
    /\ adapter' = [adapter EXCEPT !.last = [op |-> "collect_group", parts |-> parts, committedOk |-> committedOk,
                                            result |-> collect_group_metrics(parts, committedOk)]]
    /\ UNCHANGED <<sdkVars, file, stream, chan, app, history>>

\* What send().await gives: a transport failure, or a response with its
\* status and a body that deserializes as QueueInfo or not.
Responses == [send : {"ok", "timeout", "connect", "other"}, status : {200, 204, UNAUTHORIZED, NOT_FOUND, 500},
              bodyOk : BOOLEAN]

\* StatusCode::is_success
is_success(status) == status >= 200 /\ status < 300

\* From<reqwest::Error> for AdapterError
FromReqwest(send) == IF send = "timeout" THEN "Timeout" ELSE IF send = "connect" THEN "Connection" ELSE "Http"

\* RabbitMqAdapter::fetch_queue from the response on: Ok, or the variant of
\* AdapterError it returns.
fetch_queue(resp) ==
    IF resp.send # "ok" THEN FromReqwest(resp.send)
    ELSE IF resp.status = UNAUTHORIZED THEN "Auth"
    ELSE IF resp.status = NOT_FOUND THEN "Http"
    ELSE IF ~is_success(resp.status) THEN "Http"
    ELSE IF ~resp.bodyOk THEN "Parse"
    ELSE "Ok"

\* RabbitMqAdapter::collect_queue: fetch_queue sends its one request.
FetchQueueSend ==
    /\ adapter.pc = "idle"
    /\ adapter' = [adapter EXCEPT !.pc = "sent", !.requests = 1, !.last = NoAdapterCall]
    /\ UNCHANGED <<sdkVars, file, stream, chan, app, history>>

\* send().await completes and fetch_queue returns, `?` handing an error to
\* the caller of collect_queue.
FetchQueueReturn(resp) ==
    /\ adapter.pc = "sent"
    /\ adapter' = [adapter EXCEPT !.pc = "idle",
                                  !.last = [op |-> "fetch_queue", resp |-> resp, result |-> fetch_queue(resp)]]
    /\ UNCHANGED <<sdkVars, file, stream, chan, app, history>>

AdapterNext ==
    \/ \E parts \in PartitionLists, committedOk \in BOOLEAN : CollectGroup(parts, committedOk)
    \/ FetchQueueSend
    \/ \E resp \in Responses : FetchQueueReturn(resp)
AdapterSpec == Init /\ [][AdapterNext]_vars

\* usize::saturating_sub
saturating_sub(x, n) == IF x > n THEN x - n ELSE 0

\* reload_data's clamp of the module selection to the new module count.
ClampModule(ix, n) == IF ix >= n THEN saturating_sub(n, 1) ELSE ix

\* App::reload_data from the return of source.poll() on.
Reloaded(a, ver, snap) ==
    IF ver = NoSnapshot THEN [a EXCEPT !.pc = "idle"]
    ELSE [a EXCEPT !.pc = "idle", !.data = [ver |-> ver, snap |-> snap], !.history = HistoryRecord(@),
                   !.load_error = NoError,
                   !.selected_module_index = ClampModule(@, Len(SnapshotSeq[snap]))]

\* App::reload_data up to the stat inside source.poll(): an error the source
\* reports is copied and the call returns before polling.
ReloadBegin ==
    /\ app.pc = "idle"
    /\ file.pc = "idle"
    /\ app.events < MaxEvents
    /\ IF FileError(file) # NoError
       THEN /\ app' = [app EXCEPT !.load_error = FileError(file), !.events = @ + 1,
                                  !.last = [NoEvent EXCEPT !.op = "reload"]]
            /\ UNCHANGED file
       ELSE /\ app' = [app EXCEPT !.pc = "reload", !.events = @ + 1,
                                  !.last = [NoEvent EXCEPT !.op = "reload", !.polled = TRUE]]
            /\ file' = FilePollStat(file)
    /\ UNCHANGED <<sdkVars, sideVars, stream, chan>>

\* The rest of the same call: the read inside poll, and the new data.
ReloadEnd ==
    /\ app.pc = "reload"
    /\ file.pc = "stat"
    /\ file' = FilePollRead(file)
    /\ app' = Reloaded(app, file'.last.result, file.snap)
    /\ UNCHANGED <<sdkVars, sideVars, stream, chan>>

\* run_app's refresh when refresh_interval has elapsed, and run_tui's first load.
Refresh == app.running /\ ReloadBegin

ReloadNext == WriterStep \/ Refresh \/ ReloadEnd
ReloadSpec == Init /\ [][ReloadNext]_vars

\* ----------------------------------------------------- the stream source
\* The reader task after a line that does not parse: it stays in its loop.
AfterInvalidLineBreak(task) == "done"
AfterInvalidLine(task) == "read"

\* One turn of the reader task's loop up to its send: read_line returns a
\* line that parses or not, EOF, or an I/O error.  The snapshot of line n
\* is n.
ReadLine(kind) ==
    /\ stream.task = "read"
    /\ kind \in {"valid", "invalid"} => Len(stream.lines) < MaxLines
    /\ stream' = [stream EXCEPT
                    !.lines = Append(@, kind),
                    !.last_error = CASE kind = "valid" -> NoError
                                     [] kind = "invalid" -> "Parse error"
                                     [] kind = "eof" -> "Connection closed"
                                     [] OTHER -> "Read error",
                    !.sending = IF kind = "valid" THEN Len(stream.lines) + 1 ELSE NoSnapshot,
                    !.task = CASE kind = "valid" -> "send"
                               [] kind = "invalid" -> AfterInvalidLine(@)
                               [] OTHER -> "done"]
    /\ UNCHANGED <<sdkVars, sideVars, file, chan, app>>

\* tx.send(snapshot).await: completes when the queue has room.
SendSnapshot ==
    /\ stream.task = "send"
    /\ Len(stream.queue) < QueueCapacity
    /\ stream' = [stream EXCEPT !.queue = Append(@, stream.sending), !.sending = NoSnapshot, !.task = "read"]
    /\ UNCHANGED <<sdkVars, sideVars, file, chan, app>>

\* The newest queued snapshot in place of the oldest.
TryRecvNewest(q) == q[Len(q)]
\* mpsc::Receiver::try_recv on a queue that is not empty.
TryRecv(q) == Head(q)

\* The queue without the snapshot try_recv took.
Without(q, v) == SelectSeq(q, LAMBDA x : x # v)

\* StreamSource::poll
StreamPoll ==
    /\ stream.polls < MaxPolls
    /\ LET got == IF stream.queue # <<>> THEN TryRecv(stream.queue) ELSE NoSnapshot
           disconnected == stream.queue = <<>> /\ stream.task = "done"
       IN  stream' = [stream EXCEPT
                        !.polls = @ + 1,
                        !.queue = Without(@, got),
                        !.last_snapshot = IF got # NoSnapshot THEN got ELSE @,
                        !.last_error = IF disconnected THEN "Stream disconnected" ELSE @,
                        !.returned = IF got # NoSnapshot THEN Append(@, got) ELSE @,
                        !.last = [done |-> TRUE, result |-> got, queued |-> Len(stream.queue),
                                  readerDone |-> stream.task = "done"]]
    /\ UNCHANGED <<sdkVars, sideVars, file, chan, app>>

\* StreamSource::error
StreamError(st) == NoError
\* StreamSource::last_error
StreamLastError(st) == st.last_error

StreamNext == StreamPoll \/ SendSnapshot \/ \E kind \in {"valid", "invalid", "eof", "ioerr"} : ReadLine(kind)
StreamSpec == Init /\ [][StreamNext]_vars

\* ---------------------------------------------------- the channel source
\* watch::Receiver::mark_changed: the receiver's version is made to differ.
mark_changed(seen, version) == version - 1

\* watch::Receiver::has_changed on a channel whose sender is alive.
has_changed(seen, version) == seen # version

\* A borrow that does not mark the value seen.
SeenAfterBorrow(seen, version) == seen
\* watch::Receiver::borrow_and_update: the value is marked seen.
borrow_and_update(seen, version) == version

\* watch::Sender::send by the producer; the n-th value sent is n.
ChanSend ==
    /\ chan.sends < MaxSends
    /\ chan' = [chan EXCEPT !.value = chan.sends + 1, !.version = @ + 1, !.sends = @ + 1, !.unseen = @ + 1]
    /\ UNCHANGED <<sdkVars, sideVars, file, stream, app>>

\* ChannelSource::poll
ChanPoll ==
    /\ chan.polls < MaxPolls
    /\ LET seen == IF chan.initial_returned THEN chan.seen ELSE mark_changed(chan.seen, chan.version)
           changed == has_changed(seen, chan.version)
       IN  chan' = [chan EXCEPT
                      !.initial_returned = TRUE,
                      !.seen = IF changed THEN borrow_and_update(seen, chan.version) ELSE seen,
                      !.polls = @ + 1,
                      !.unseen = 0,
                      !.last = [done |-> TRUE, some |-> changed, value |-> IF changed THEN chan.value ELSE 0,
                                first |-> ~chan.initial_returned, sentSince |-> chan.unseen]]
    /\ UNCHANGED <<sdkVars, sideVars, file, stream, app>>

ChanNext == ChanSend \/ ChanPoll
ChanSpec == Init /\ [][ChanNext]_vars

\* -------------------------------------------------- the viewer's selection
Min(x, y) == IF x < y THEN x ELSE y

HasData(a) == a.data.ver # NoSnapshot
\* data.modules
Data(a) == from_snapshot(SnapshotSeq[a.data.snap])

\* App::matches_filter
matches_filter(a, name) ==
    a.filter_text = <<>> \/ contains(to_lowercase(name), to_lowercase(a.filter_text))

\* The positions in data.modules of the modules the filter keeps.
FilteredModules(a) ==
    SelectSeq([i \in 1..Len(Data(a)) |-> i], LAMBDA i : matches_filter(a, Data(a)[i].name))

\* App::filtered_module_count
filtered_module_count(a) == Len(FilteredModules(a))

RECURSIVE UnhealthyFrom(_, _)
\* The unhealthy topics of the modules from position i on, module by module.
UnhealthyFrom(ms, i) ==
    IF i > Len(ms) THEN <<>>
    ELSE SelectSeq([k \in 1..Len(ms[i].topics) |->
                       [module |-> i, name |-> ms[i].name, topic |-> ms[i].topics[k].topic,
                        status |-> ms[i].topics[k].status]],
                   LAMBDA t : t.status # Healthy) \o UnhealthyFrom(ms, i + 1)

\* MonitorData::unhealthy_topics: critical first.
unhealthy_topics(ms) == sort_by(UnhealthyFrom(ms, 1), LAMBDA x, y : x.status > y.status)

\* App::filtered_bottleneck_count
filtered_bottleneck_count(a) ==
    Len(SelectSeq(unhealthy_topics(Data(a)),
                  LAMBDA t : \/ a.filter_text = <<>>
                             \/ contains(to_lowercase(t.name), to_lowercase(a.filter_text))
                             \/ contains(to_lowercase(t.topic), to_lowercase(a.filter_text))))

\* DataFlowGraph::from_monitor_data(data).topics.len()
FlowTopicCount(ms) ==
    Cardinality(UNION {{ms[i].topics[k].topic : k \in 1..Len(ms[i].topics)} : i \in 1..Len(ms)})

Cmp(x, y) == IF x < y THEN -1 ELSE IF x > y THEN 1 ELSE 0
StrCmp(x, y) == IF StrLess(x, y) THEN -1 ELSE IF StrLess(y, x) THEN 1 ELSE 0

\* The primary comparison of sort_modules_by.
ColumnCmp(x, y, column) ==
    CASE column = "Name" -> StrCmp(x.name, y.name)
      [] column = "Reads" -> Cmp(x.total_read, y.total_read)
      [] column = "Writes" -> Cmp(x.total_written, y.total_written)
      [] column = "Pending" -> Cmp(x.pending, y.pending)
      [] OTHER -> Cmp(x.health, y.health)

\* ui::summary::sort_modules_by on rows of positions in ms.
sort_modules_by(rows, ms, column, ascending) ==
    sort_by(rows, LAMBDA i, j :
                     LET c == ColumnCmp(ms[i], ms[j], column)
                         primary == IF ascending THEN c ELSE 0 - c
                     IN  IF primary = 0 THEN StrLess(ms[i].name, ms[j].name) ELSE primary < 0)

\* The rows of the Summary table: filtered, then sorted.
SummaryRows(a) == sort_modules_by(FilteredModules(a), Data(a), a.sort_column, a.sort_ascending)

\* App::get_selected_module_raw_index, counted from 0; NoIndex for None.
get_selected_module_raw_index(a) ==
    IF ~HasData(a) THEN NoIndex
    ELSE CASE a.current_view = "Summary" ->
                 IF a.selected_module_index < Len(SummaryRows(a))
                 THEN SummaryRows(a)[a.selected_module_index + 1] - 1 ELSE NoIndex
           [] a.current_view = "DataFlow" ->
                 IF a.selected_module_index < Len(Data(a)) THEN a.selected_module_index ELSE NoIndex
           [] OTHER -> NoIndex

\* The raw index of the module in the row ui::summary::render highlights.
SummaryHighlighted(a) ==
    IF ~HasData(a) \/ SummaryRows(a) = <<>> THEN NoIndex
    ELSE SummaryRows(a)[Min(a.selected_module_index, saturating_sub(Len(SummaryRows(a)), 1)) + 1] - 1

\* App::select_next_n
select_next_n(a, n) ==
    IF ~HasData(a) THEN a
    ELSE CASE a.current_view = "Summary" ->
                 [a EXCEPT !.selected_module_index = Min(@ + n, saturating_sub(filtered_module_count(a), 1))]
           [] a.current_view = "DataFlow" ->
                 [a EXCEPT !.selected_module_index = Min(@ + n, saturating_sub(Len(Data(a)), 1))]
           [] OTHER ->
                 [a EXCEPT !.selected_topic_index = Min(@ + n, saturating_sub(filtered_bottleneck_count(a), 1))]

\* App::select_prev_n
select_prev_n(a, n) ==
    IF a.current_view = "Bottleneck" THEN [a EXCEPT !.selected_topic_index = saturating_sub(@, n)]
    ELSE [a EXCEPT !.selected_module_index = saturating_sub(@, n)]

\* App::select_first
select_first(a) ==
    IF a.current_view = "Bottleneck" THEN [a EXCEPT !.selected_topic_index = 0]
    ELSE [a EXCEPT !.selected_module_index = 0]

\* App::select_last
select_last(a) ==
    IF ~HasData(a) THEN a
    ELSE CASE a.current_view = "Summary" ->
                 [a EXCEPT !.selected_module_index = saturating_sub(filtered_module_count(a), 1)]
           [] a.current_view = "DataFlow" ->
                 [a EXCEPT !.selected_module_index = saturating_sub(Len(Data(a)), 1)]
           [] OTHER ->
                 [a EXCEPT !.selected_topic_index = saturating_sub(filtered_bottleneck_count(a), 1)]

\* View::next and View::prev
ViewNext(v) == CASE v = "Summary" -> "Bottleneck" [] v = "Bottleneck" -> "DataFlow" [] OTHER -> "Summary"
ViewPrev(v) == CASE v = "Summary" -> "DataFlow" [] v = "Bottleneck" -> "Summary" [] OTHER -> "Bottleneck"

\* App::set_view, and next_view and prev_view with the view they compute.
set_view(a, v) == [a EXCEPT !.current_view = v, !.selected_topic_index = 0]

\* App::push_view
push_view(a, v) ==
    [a EXCEPT !.view_stack = Append(@, [view |-> a.current_view,
                                        selected_module_index |-> a.selected_module_index,
                                        selected_topic_index |-> a.selected_topic_index]),
              !.current_view = v, !.selected_topic_index = 0]

\* A pop that restores the selection and leaves the view where it is.
pop_viewSelection(a) ==
    [a EXCEPT !.view_stack = SubSeq(@, 1, Len(@) - 1),
              !.selected_module_index = a.view_stack[Len(a.view_stack)].selected_module_index,
              !.selected_topic_index = a.view_stack[Len(a.view_stack)].selected_topic_index]

\* App::pop_view on a stack that is not empty.
pop_view(a) ==
    LET state == a.view_stack[Len(a.view_stack)]
    IN  [a EXCEPT !.view_stack = SubSeq(@, 1, Len(@) - 1), !.current_view = state.view,
                  !.selected_module_index = state.selected_module_index,
                  !.selected_topic_index = state.selected_topic_index]

\* App::go_back
go_back(a) ==
    IF a.show_detail_overlay THEN [a EXCEPT !.show_detail_overlay = FALSE]
    ELSE IF a.view_stack # <<>> THEN pop_view(a)
    ELSE [a EXCEPT !.current_view = "Summary"]

\* App::enter_detail
enter_detail(a) ==
    IF a.current_view \in {"Summary", "Bottleneck"} THEN [a EXCEPT !.show_detail_overlay = TRUE] ELSE a

\* SortColumn::next and BottleneckSortColumn::next
SortColumnNext(c) ==
    CASE c = "Name" -> "Reads" [] c = "Reads" -> "Writes" [] c = "Writes" -> "Pending"
      [] c = "Pending" -> "Status" [] OTHER -> "Name"
BottleneckSortColumnNext(c) ==
    CASE c = "Status" -> "Module" [] c = "Module" -> "Topic" [] c = "Topic" -> "Kind"
      [] c = "Kind" -> "Pending" [] c = "Pending" -> "Unread" [] OTHER -> "Status"

\* App::cycle_sort
cycle_sort(a) ==
    CASE a.current_view = "Summary" -> [a EXCEPT !.sort_column = SortColumnNext(@)]
      [] a.current_view = "Bottleneck" -> [a EXCEPT !.bottleneck_sort_column = BottleneckSortColumnNext(@)]
      [] OTHER -> a

\* App::toggle_sort_direction
toggle_sort_direction(a) ==
    CASE a.current_view = "Summary" -> [a EXCEPT !.sort_ascending = ~@]
      [] a.current_view = "Bottleneck" -> [a EXCEPT !.bottleneck_sort_ascending = ~@]
      [] OTHER -> a

\* The keys pressed; "A" and "b" stand for the characters typed into the
\* filter, "BackTab" also for Tab with Shift.
FilterChars == {"A", "b"}
\* The filter texts typed.
FilterTexts == {<<>>, <<"A">>, <<"b">>, <<"c">>, <<"A", "b">>, <<"b", "A">>}
Keys == {"q", "Tab", "BackTab", "1", "2", "3", "Up", "Down", "PageUp", "PageDown",
         "Home", "End", "Enter", "Esc", "Backspace", "r", "?", "s", "S", "/", "c", "Ctrl-c"} \cup FilterChars

\* The other character keys: KeyCode::Char(c) for the characters bound to
\* commands outside filter input.
OtherChars == {"q", "1", "2", "3", "r", "?", "s", "S", "/", "c", "e"}
CharKeys == FilterChars \cup OtherChars

\* App::start_filter
start_filter(a) == [a EXCEPT !.filter_active = TRUE]
\* App::clear_filter
clear_filter(a) == [a EXCEPT !.filter_text = <<>>, !.filter_active = FALSE]
\* A cancel that clears the text as well.
cancel_filterClearing(a) == clear_filter(a)
\* App::cancel_filter
cancel_filter(a) == [a EXCEPT !.filter_active = FALSE]
\* App::filter_push
filter_push(a, c) == [a EXCEPT !.filter_text = Append(@, c)]
\* App::filter_pop: String::pop does nothing on an empty string.
filter_pop(a) == [a EXCEPT !.filter_text = SubSeq(@, 1, saturating_sub(Len(@), 1))]

\* A filter input that lets Enter through to the binding it has outside
\* filter input.
handle_filter_inputEnterThrough(a, key) ==
    CASE key = "Enter" -> enter_detail(a)
      [] key = "Esc" -> cancel_filter(a)
      [] key \in CharKeys -> filter_push(a, key)
      [] OTHER -> a

\* events::handle_filter_input
handle_filter_input(a, key) ==
    CASE key = "Enter" -> [a EXCEPT !.filter_active = FALSE]
      [] key = "Esc" -> cancel_filter(a)
      [] key = "Ctrl-c" -> clear_filter(a)
      [] key = "Backspace" ->
            LET b == filter_pop(a)
            IN  IF b.filter_text = <<>> THEN [b EXCEPT !.filter_active = FALSE] ELSE b
      [] key \in CharKeys -> filter_push(a, key)
      [] OTHER -> a

\* The keys handle_key_event gives to its last match: no help, no detail
\* overlay, no filter input.
MainMode(a) == ~a.show_help /\ ~a.show_detail_overlay /\ ~a.filter_active

\* events::handle_key_event, but for `r` in its last match, which is
\* reload_data.
handle_key_event(a, key) ==
    IF a.show_help THEN [a EXCEPT !.show_help = FALSE]
    ELSE IF a.show_detail_overlay THEN
        CASE key \in {"Esc", "Enter", "Backspace", "q"} -> [a EXCEPT !.show_detail_overlay = FALSE]
          [] key = "Up" -> select_prev_n(a, 1)
          [] key = "Down" -> select_next_n(a, 1)
          [] key = "PageUp" -> select_prev_n(a, PageStep)
          [] key = "PageDown" -> select_next_n(a, PageStep)
          [] key = "Home" -> select_first(a)
          [] key = "End" -> select_last(a)
          [] OTHER -> a
    ELSE IF a.filter_active THEN handle_filter_input(a, key)
    ELSE
        CASE key = "q" -> [a EXCEPT !.running = FALSE]
          [] key \in {"Tab", "Right"} -> set_view(a, ViewNext(a.current_view))
          [] key \in {"BackTab", "Left"} -> set_view(a, ViewPrev(a.current_view))
          [] key = "1" -> set_view(a, "Summary")
          [] key = "2" -> set_view(a, "Bottleneck")
          [] key = "3" -> set_view(a, "DataFlow")
          [] key = "Up" -> select_prev_n(a, 1)
          [] key = "Down" -> select_next_n(a, 1)
          [] key = "PageUp" -> select_prev_n(a, PageStep)
          [] key = "PageDown" -> select_next_n(a, PageStep)
          [] key = "Home" -> select_first(a)
          [] key = "End" -> select_last(a)
          [] key = "Enter" -> enter_detail(a)
          [] key \in {"Esc", "Backspace"} -> go_back(a)
          [] key = "?" -> [a EXCEPT !.show_help = ~@]
          [] key = "s" -> cycle_sort(a)
          [] key = "S" -> toggle_sort_direction(a)
          [] key = "/" -> start_filter(a)
          [] key = "c" -> IF a.filter_text # <<>> THEN clear_filter(a) ELSE a
          [] OTHER -> a

\* The mouse events: the wheel, the right button, and the left button on
\* the tab row or on a row of the content.
Clicks == {[row |-> 1, column |-> 0], [row |-> 1, column |-> 13], [row |-> 1, column |-> 29],
           [row |-> 4, column |-> 0], [row |-> 5, column |-> 0], [row |-> 6, column |-> 0]}

\* The left click on a row of the content.
ClickItem(a, item_row) ==
    IF ~HasData(a) THEN a
    ELSE CASE a.current_view = "Summary" ->
                 IF item_row < filtered_module_count(a) THEN [a EXCEPT !.selected_module_index = item_row] ELSE a
           [] a.current_view = "Bottleneck" ->
                 IF item_row < Len(unhealthy_topics(Data(a))) THEN [a EXCEPT !.selected_topic_index = item_row]
                 ELSE a
           [] OTHER ->
                 IF item_row < FlowTopicCount(Data(a)) THEN [a EXCEPT !.selected_topic_index = item_row] ELSE a

\* The left click on the tab row.
ClickTab(a, column) ==
    IF column < 13 THEN set_view(a, "Summary")
    ELSE IF column < 29 THEN set_view(a, "Bottleneck")
    ELSE IF column < 39 THEN set_view(a, "DataFlow")
    ELSE a

\* events::handle_mouse_event with content_start_row = ContentStartRow.
handle_mouse_event(a, kind, click) ==
    CASE kind = "ScrollUp" -> select_prev_n(a, 1)
      [] kind = "ScrollDown" -> select_next_n(a, 1)
      [] kind = "Right" -> go_back(a)
      [] OTHER ->
            LET b == IF click.row > ContentStartRow THEN ClickItem(a, click.row - ContentStartRow - 1) ELSE a
            IN  IF click.row = 1 THEN ClickTab(b, click.column) ELSE b

\* The keys handle_key_event gives to handle_filter_input.
FilterMode(a) == ~a.show_help /\ ~a.show_detail_overlay /\ a.filter_active

\* The keys that switch views.
SwitchKeys == {"Tab", "BackTab", "1", "2", "3"}
\* The view an event moved away from, "none" when the view stayed.
Switched(a, b) == IF b.current_view # a.current_view THEN a.current_view ELSE "none"

\* A key press the main loop hands to handle_key_event.
KeyPress(key) ==
    /\ app.running
    /\ app.pc = "idle"
    /\ app.events < MaxEvents
    /\ ~(key = "r" /\ MainMode(app))
    /\ (FilterMode(app) /\ key \in CharKeys) => Append(app.filter_text, key) \in FilterTexts
    /\ app' = [handle_key_event(app, key) EXCEPT
                 !.events = @ + 1,
                 !.last = [NoEvent EXCEPT
                             !.op = IF key \in {"Esc", "Backspace"} THEN "back" ELSE "input",
                             !.popped = key \in {"Esc", "Backspace"} /\ MainMode(app) /\ app.view_stack # <<>>,
                             !.from = IF key \in SwitchKeys /\ MainMode(app) THEN Switched(app, handle_key_event(app, key))
                                      ELSE "none",
                             !.topic = IF key \in SwitchKeys /\ MainMode(app) THEN app.selected_topic_index ELSE 0,
                             !.key = IF FilterMode(app) \/ (MainMode(app) /\ key \in {"/", "c"}) THEN key ELSE "none"]]
    /\ UNCHANGED <<sdkVars, sideVars, file, stream, chan>>

\* The `r` key in handle_key_event's last match.
KeyReload == app.running /\ MainMode(app) /\ ReloadBegin

\* A mouse event the main loop hands to handle_mouse_event.
Mouse(kind, click) ==
    /\ app.running
    /\ app.pc = "idle"
    /\ app.events < MaxEvents
    /\ app' = [handle_mouse_event(app, kind, click) EXCEPT
                 !.events = @ + 1,
                 !.last = [NoEvent EXCEPT
                             !.op = "input",
                             !.from = IF kind = "Left" /\ click.row = 1 THEN Switched(app, handle_mouse_event(app, kind, click))
                                      ELSE "none",
                             !.topic = IF kind = "Left" /\ click.row = 1 THEN app.selected_topic_index ELSE 0,
                             !.row = IF kind = "Left" /\ click.row > ContentStartRow
                                     THEN click.row - ContentStartRow - 1 ELSE NoIndex]]
    /\ UNCHANGED <<sdkVars, sideVars, file, stream, chan>>

\* A caller of App::push_view (no key is bound to it).
PushView(v) ==
    /\ app.running
    /\ app.pc = "idle"
    /\ app.events < MaxEvents
    /\ app' = [push_view(app, v) EXCEPT !.events = @ + 1, !.last = [NoEvent EXCEPT !.op = "input"]]
    /\ UNCHANGED <<sdkVars, sideVars, file, stream, chan>>

InputStep ==
    \/ \E key \in Keys : KeyPress(key)
    \/ \E click \in Clicks : Mouse("Left", click)
    \/ \E kind \in {"ScrollUp", "ScrollDown", "Right"} : Mouse(kind, [row |-> 0, column |-> 0])
    \/ \E v \in {"Summary", "Bottleneck", "DataFlow"} : PushView(v)

\* App::export_state: the error it returns, or the document it writes to
\* the path, by its top-level members.
export_state(a, ioOk) ==
    IF ~HasData(a) THEN [ok |-> FALSE, doc |-> a.exported]
    ELSE IF ~ioOk THEN [ok |-> FALSE, doc |-> a.exported]
    ELSE LET ms == Data(a)
             n(h) == Cardinality({i \in 1..Len(ms) : ms[i].health = h})
         IN  [ok |-> TRUE,
              doc |-> [members |-> {"summary", "modules"},
                       summary |-> [total_modules |-> Len(ms), healthy |-> n(Healthy), warning |-> n(Warning),
                                    critical |-> n(Critical)],
                       modules |-> [i \in 1..Len(ms) |->
                                      [name |-> ms[i].name, total_read |-> ms[i].total_read,
                                       total_written |-> ms[i].total_written, health |-> ms[i].health]]]]

\* The `e` key in handle_key_event's last match: the export, then the
\* status message its result selects.
KeyExport(ioOk) ==
    /\ app.running
    /\ app.pc = "idle"
    /\ app.events < MaxEvents
    /\ MainMode(app)
    /\ LET r == export_state(app, ioOk)
       IN  app' = [app EXCEPT !.exported = r.doc,
                              !.status_message = IF r.ok THEN "Exported" ELSE "Export failed",
                              !.events = @ + 1,
                              !.last = [NoEvent EXCEPT !.op = "export", !.key = "e"]]
    /\ UNCHANGED <<sdkVars, sideVars, file, stream, chan>>

\* The producer of the file the viewer watches: it writes snapshots that
\* parse, each with a later mtime.
ProducerStep == \E snap \in SnapshotIds : WriteFile(TRUE, 1, snap)

\* The inputs that open and close overlays, start filter input, move the
\* selection and switch, push and pop views.
BackKeys == {"Esc", "Backspace", "Enter", "?", "/", "2", "Down"}
BackInputStep ==
    \/ \E key \in BackKeys : KeyPress(key)
    \/ \E click \in {c \in Clicks : c.row > ContentStartRow} : Mouse("Left", click)
    \/ \E v \in {"Summary", "Bottleneck", "DataFlow"} : PushView(v)

\* The snapshot file written before the viewer loads it.
FirstWrite == file.polls = 0 /\ ProducerStep

BackNext == BackInputStep \/ Refresh \/ ReloadEnd \/ FirstWrite
BackSpec == Init /\ [][BackNext]_vars

\* The keys of filter input and of the filter commands, with keys that
\* open the overlays and switch views.
FilterKeys == {"/", "c", "Ctrl-c", "Backspace", "Enter", "Esc", "?", "Tab"} \cup FilterChars
FilterNext == \E key \in FilterKeys : KeyPress(key)
FilterSpec == Init /\ [][FilterNext]_vars

\* The keys and mouse events that open and close the help overlay, the
\* detail overlay and filter input, type into the filter and switch views.
ModalKeys == {"?", "Enter", "/", "Esc", "A", "3"}
ModalNext ==
    \/ \E key \in ModalKeys : KeyPress(key)
    \/ \E click \in {c \in Clicks : c.row = 1} : Mouse("Left", click)
    \/ Mouse("Right", [row |-> 0, column |-> 0])
ModalSpec == Init /\ [][ModalNext]_vars

\* The viewer reloading the file and exporting what it shows.
ExportNext == (\E ioOk \in BOOLEAN : KeyExport(ioOk)) \/ Refresh \/ ReloadEnd \/ ProducerStep
ExportSpec == Init /\ [][ExportNext]_vars

AppNext == InputStep \/ KeyReload \/ Refresh \/ ReloadEnd \/ ProducerStep
AppSpec == Init /\ [][AppNext]_vars

\* Everything at once: the threads, time and the emission task.
Next ==
    \/ RegistryStep \/ RecordStep \/ PendingStep \/ CollectStep \/ SlowPathStep \/ TimeStep
    \/ Start \/ TimerFire \/ TaskStep \/ Stop \/ DropHandle

Spec == Init /\ [][Next]_vars

\* ------------------------------------------------------------ properties
RECURSIVE SumCalls(_, _)
\* The sum of the counts of the record calls on series s that threads S are
\* still inside of, before their fetch_add.
SumCalls(S, s) ==
    IF S = {} THEN 0
    ELSE LET t == CHOOSE x \in S : TRUE
             mine == /\ th[t].op = "record"
                     /\ th[t].pc \in {"lookup_slow", "apply"}
                     /\ <<th[t].mid, th[t].kind, th[t].topic>> = s
         IN (IF mine THEN th[t].k ELSE 0) + SumCalls(S \ {t}, s)

\* Threads holding a snapshot under construction or just returned.
Snapshotting == {t \in Tasks : th[t].pc \in CollectPcs \cup {"c_done"}}

NameIx(n) == CHOOSE x \in 1..Len(NameSeq) : NameSeq[x] = n

\* C1: the count of a read series is exactly the sum of the counts of the
\* record_read calls that have returned on it (no increment lost or counted
\* twice), so with every call returned it is the whole sum; and the count a
\* collect reports lies between the count when the collect started and the sum
\* of all the calls issued, hence between 0 and that sum.
C1_CountsExact ==
    /\ \A m \in ModIds, tp \in Topics :
          reads[m][tp].count + SumCalls(Threads, <<m, "r", tp>>) = issued[<<m, "r", tp>>]
    /\ \A t \in Snapshotting, n \in Names, tp \in Topics :
          col[t].out[n].present /\ col[t].out[n].reads[tp].present =>
             LET id == col[t].out[n].id
                 r == col[t].out[n].reads[tp]
             IN /\ 0 <= col[t].base[id][tp]
                /\ col[t].base[id][tp] <= r.count
                /\ r.count <= issued[<<id, "r", tp>>]

\* Two record_read calls of 1 and 2 have returned and a collect reports 3.
C1_Witness ==
    \E t \in Threads, n \in Names, tp \in Topics :
       /\ th[t].pc = "c_done"
       /\ col[t].out[n].present /\ col[t].out[n].reads[tp].present
       /\ col[t].out[n].reads[tp].count = 3
       /\ issued[<<col[t].out[n].id, "r", tp>>] = 3
       /\ SumCalls(Threads, <<col[t].out[n].id, "r", tp>>) = 0

\* C2: in every snapshot a read series' backlog is None or the topic's global
\* write count minus the read count reported beside it; it is Some exactly when
\* the topic's global counter exists and exceeds the read count, and so is
\* never the result of a negative difference.
C2_Backlog ==
    \A t \in Snapshotting, n \in Names, tp \in Topics :
       col[t].out[n].present /\ col[t].out[n].reads[tp].present =>
          LET r == col[t].out[n].reads[tp]
          IN /\ (r.backlog # NoValue) <=> (r.total # NoCounter /\ r.total > r.count)
             /\ r.backlog # NoValue => r.backlog = r.total - r.count /\ r.backlog > 0
             /\ r.total <= topic_write_counts[tp]

\* A snapshot reports a backlog of 1: two written, one read.
C2_Witness ==
    \E t \in Threads, n \in Names, tp \in Topics :
       /\ th[t].pc = "c_done"
       /\ col[t].out[n].present /\ col[t].out[n].reads[tp].present
       /\ col[t].out[n].reads[tp].count = 1
       /\ col[t].out[n].reads[tp].total = 2
       /\ col[t].out[n].reads[tp].backlog = 1

C4_Unregister ==
    /\ lastUnreg.ret <=> lastUnreg.was
    /\ ~lastUnreg.after
    /\ lastUnreg.again => ~lastUnreg.ret
    /\ \A t \in Collecting, n \in Names :
          /\ col[t].out[n].present => modules[n] # NoModule
          /\ modules[n] # NoModule /\ NameIx(n) < col[t].i => col[t].out[n].present

\* unregister returned true and a later snapshot shows the other module only.
C4_Witness ==
    \E t \in Threads, n \in Names :
       /\ lastUnreg.ret /\ lastUnreg.was
       /\ modules[lastUnreg.name] = NoModule
       /\ th[t].pc = "c_done"
       /\ ~col[t].out[lastUnreg.name].present
       /\ col[t].out[n].present

\* A step in which thread t's collect loads a series: count, pending, rate.
LoadStep(t) == th[t].pc \in {"c_rload", "c_wload"} /\ th'[t].pc \in {"c_rmemo", "c_wmemo"}
\* The series thread t's collect is at.
LoadedSeries(t) ==
    <<col[t].mid, IF th[t].pc \in {"c_rload", "c_rmemo"} THEN "r" ELSE "w", TopicSeq[col[t].j]>>
Cell(s) == SeriesOf(s[1], s[2], s[3]).pending_since

\* C5 as stated: whenever a collect reads a series (one that set_*_pending was
\* never used on), the pending field it reports is present if and only if at
\* least one token of start_read / start_write on the series is unreleased,
\* overlapping tokens included.
C5_PendingIffToken ==
    [][\A t \in Threads : LoadStep(t) =>
          LET s == LoadedSeries(t)
          IN ~overridden[s] => ((col'[t].pending # NoValue) <=> guards[s] > 0)]_vars

\* C5: whenever a collect reads a series that set_*_pending was never used on,
\* a pending field it reports means at least one token on the series is
\* unreleased; and as long as no two tokens on the series have overlapped, an
\* unreleased token means pending is reported.
C5_PendingLatestWins ==
    [][\A t \in Threads : LoadStep(t) =>
          LET s == LoadedSeries(t)
          IN ~overridden[s] =>
                /\ col'[t].pending # NoValue => guards[s] > 0
                /\ ~overlapped[s] /\ guards[s] > 0 => col'[t].pending # NoValue]_vars

\* A collect has just read pending from a series whose only token is held.
C5_Witness ==
    \E t \in Threads :
       /\ th[t].pc \in {"c_rmemo", "c_wmemo"}
       /\ col[t].pending # NoValue
       /\ guards[LoadedSeries(t)] = 1
       /\ ~overlapped[LoadedSeries(t)] /\ ~overridden[LoadedSeries(t)]
       /\ Cell(LoadedSeries(t)) # NoInstant

\* C6: every step that drops a token leaves the series' pending_since None,
\* whatever exit path dropped it, and a collect that reads the series while
\* pending_since is None reports no pending.
C6_ReleaseClears ==
    [][/\ \A s \in SeriesIds : guards'[s] < guards[s] => Cell(s)' = NoInstant
       /\ \A t \in Threads : LoadStep(t) /\ Cell(LoadedSeries(t)) = NoInstant =>
             col'[t].pending = NoValue]_vars

\* A token that had armed the cell was dropped, and the snapshot a later
\* collect returned shows the series without pending.
C6_Witness ==
    \E t \in Threads, n \in Names :
       /\ lastDrop.done /\ ~lastDrop.wasReleased /\ lastDrop.before # NoInstant
       /\ Cell(lastDrop.id) = NoInstant
       /\ th[t].pc = "c_done"
       /\ col[t].out[n].present /\ col[t].out[n].id = lastDrop.id[1]
       /\ LET ms == IF lastDrop.id[2] = "r" THEN col[t].out[n].reads ELSE col[t].out[n].writes
          IN ms[lastDrop.id[3]].present /\ ms[lastDrop.id[3]].pending = NoValue

\* C7 as stated: the drop of a token that a set_*_pending(None) override had
\* released already leaves pending_since exactly as it was before the drop.
C7_SecondReleaseNoOp ==
    lastDrop.done /\ lastDrop.wasReleased => lastDrop.after = lastDrop.before

\* C7: the drop of a token that a set_*_pending(None) override had released
\* already leaves pending_since None; the cell was None before it, so that the
\* drop changed nothing, whenever no start_* or set_*_pending(Some) wrote the
\* cell between the override and the drop.
C7_SecondReleaseClears ==
    lastDrop.done /\ lastDrop.wasReleased =>
       /\ lastDrop.after = NoInstant
       /\ ~lastDrop.rearmed => lastDrop.before = NoInstant

\* A token released by an override was dropped with the cell still None.
C7_Witness ==
    /\ lastDrop.done /\ lastDrop.wasReleased /\ ~lastDrop.rearmed
    /\ lastDrop.before = NoInstant /\ lastDrop.after = NoInstant
    /\ overridden[lastDrop.id]

\* C8 as stated: dropping the EmissionHandle stops the task as stop() does:
\* once the task has seen that the handle is gone it has terminated, and
\* collects and emits no more.
C8_DropStops ==
    sched.handle = "dropped" /\ sched.closedSeen => sched.pc = "done"

\* C9: every round invokes every output with the round's snapshot: in a round,
\* the outputs before the loop's position have been invoked with it whatever
\* the others returned, and between rounds all of them have; and the task is
\* never terminated by a failed emit, only by a stop value of true.
C9_EveryEmitterEveryTick ==
    /\ sched.pc = "round" =>
          \A i \in 1..Len(OutputSeq) :
             sched.invoked[i] = IF i < sched.ix THEN sched.round ELSE sched.round - 1
    /\ sched.pc \in {"select", "done"} =>
          \A i \in 1..Len(OutputSeq) : sched.invoked[i] = sched.round
    /\ sched.pc = "done" => sched.value /\ sched.handle = "stopped"

\* An emit failed in the first round, and the second round has been emitted
\* to every output.
C9_Witness ==
    /\ sched.failedRound = 1
    /\ sched.round = 2
    /\ sched.pc = "select"
    /\ \A i \in 1..Len(OutputSeq) : sched.invoked[i] = 2

\* C10: after stop() the task eventually terminates; when it has, the round
\* that was in progress has been emitted to every output; the step in which
\* the task observes the stop value ends it; and a terminated task starts no
\* round, collects nothing and emits nothing.
C10_StopTerminates ==
    /\ (sched.handle = "stopped") ~> (sched.pc = "done")
    /\ [](sched.pc = "done" =>
             /\ th[Emitter].pc = "idle"
             /\ \A i \in 1..Len(OutputSeq) : sched.invoked[i] = sched.round)
    /\ [][/\ sched.pc = "select" /\ sched.unseen /\ sched.value /\ ~sched'.unseen =>
                sched'.pc = "done"
          /\ sched.pc = "done" =>
                sched' = sched /\ th'[Emitter] = th[Emitter] /\ col'[Emitter] = col[Emitter]]_vars

\* stop() was called in the middle of a round and the task has terminated.
C10_Witness ==
    /\ sched.handle = "stopped"
    /\ sched.stoppedIn = "round"
    /\ sched.pc = "done"
    /\ sched.round >= 1
    /\ \A i \in 1..Len(OutputSeq) : sched.invoked[i] = sched.round

\* C13: FileSource.poll never returns the same written content twice, for
\* any interleaving of the writer's rewrites with poll's stat and read.
C13_NoContentTwice ==
    \A i, j \in 1..Len(file.returned) : i # j => file.returned[i] # file.returned[j]

\* C14: a poll that fails to read or parse the file sets the error, returns
\* None and leaves the remembered mtime as it was; the poll after it that
\* finds the file reads it again, and returns its content when that is
\* valid, even when the mtime is the one the failed poll saw.
C14_FailedPollRetries ==
    /\ (file.last.done /\ file.last.tried /\ file.last.result = NoSnapshot)
          => /\ FileError(file) # NoError
             /\ file.last_modified = file.last.cursorBefore
    /\ (file.last.prevFailed /\ file.last.sawFile)
          => /\ file.last.tried
             /\ file.last.readValid => file.last.result # NoSnapshot

C14_Witness ==
    /\ file.last.prevFailed
    /\ file.last.result # NoSnapshot
    /\ file.last.sawMtime = file.last.prevSawMtime

\* C11: every refresh of the viewer calls source.poll(), whatever error the
\* source reported earlier.
C11_RefreshPolls == app.last.op = "reload" => app.last.polled

\* C12: when a source has observed an ingest error since its last
\* successful snapshot, its error() returns the message.
C12_ErrorReported == StreamLastError(stream) # NoError => StreamError(stream) # NoError

\* The numbers of the valid lines among the lines read, in stream order.
ValidLines == SelectSeq([i \in 1..Len(stream.lines) |-> IF stream.lines[i] = "valid" THEN i ELSE 0],
                        LAMBDA x : x # 0)
\* The snapshots the reader has parsed: returned, queued, or being sent.
Accepted == stream.returned \o stream.queue \o (IF stream.task = "send" THEN <<stream.sending>> ELSE <<>>)

\* C15: a line that does not parse sets the error and leaves the reader
\* running, every valid line read is parsed and queued, and the reader has
\* ended only after EOF or an I/O error, with the error set.
C15_InvalidLineKeepsReader ==
    /\ Accepted = ValidLines
    /\ (stream.lines # <<>> /\ stream.lines[Len(stream.lines)] = "invalid")
          => stream.task = "read" /\ StreamLastError(stream) = "Parse error"
    /\ stream.task = "done"
          => /\ stream.lines # <<>>
             /\ stream.lines[Len(stream.lines)] \in {"eof", "ioerr"}
             /\ StreamLastError(stream) # NoError

C15_Witness ==
    \E i, j \in 1..Len(stream.lines) :
        /\ i < j
        /\ stream.lines[i] = "invalid"
        /\ stream.lines[j] = "valid"
        /\ \E k \in 1..Len(stream.queue) : stream.queue[k] = j

\* C16: each poll returns at most one snapshot; the snapshots returned are
\* the valid lines read so far, in stream order, each once, and a poll
\* returns nothing only when nothing was queued, also after the reader ended.
C16_PollDrainsInOrder ==
    /\ Len(stream.returned) <= stream.polls
    /\ Len(stream.returned) <= Len(ValidLines)
    /\ stream.returned = SubSeq(ValidLines, 1, Len(stream.returned))
    /\ (stream.last.done /\ stream.last.result = NoSnapshot) => stream.last.queued = 0

C16_Witness ==
    /\ stream.last.done
    /\ stream.last.readerDone
    /\ stream.last.result # NoSnapshot
    /\ Len(stream.returned) >= 2
    /\ stream.queue = <<>>

VisibleCount(a) ==
    IF ~HasData(a) THEN 0
    ELSE CASE a.current_view = "Summary" -> filtered_module_count(a)
           [] a.current_view = "DataFlow" -> Len(Data(a))
           [] OTHER -> filtered_bottleneck_count(a)
CurrentIndex(a) == IF a.current_view = "Bottleneck" THEN a.selected_topic_index ELSE a.selected_module_index

\* C18: after every event and reload the selection index the current view
\* uses is less than the length of the view's visible list, or is 0 when
\* the list is empty.
C18_SelectionInBounds ==
    app.pc = "idle" =>
        \/ CurrentIndex(app) < VisibleCount(app)
        \/ VisibleCount(app) = 0 /\ CurrentIndex(app) = 0

\* C19: whenever the detail overlay is open over a list with rows, it
\* shows a module, and in Summary the module of the highlighted row.
C19_OverlayShowsSelected ==
    (app.pc = "idle" /\ app.show_detail_overlay /\ VisibleCount(app) > 0) =>
        /\ get_selected_module_raw_index(app) # NoIndex
        /\ app.current_view = "Summary" => get_selected_module_raw_index(app) = SummaryHighlighted(app)

\* C20: Esc or Backspace outside filter input closes an open overlay and
\* changes nothing else; with no overlay open it pops the view stack and
\* restores the popped view and selection indices; with no overlay and an
\* empty stack it sets the view to Summary.
C20_BackKey ==
    [][(app'.events = app.events + 1 /\ app'.last.op = "back" /\ ~app.filter_active) =>
          LET after == [app' EXCEPT !.events = app.events, !.last = app.last]
              state == app.view_stack[Len(app.view_stack)]
          IN  IF app.show_help THEN after = [app EXCEPT !.show_help = FALSE]
              ELSE IF app.show_detail_overlay THEN after = [app EXCEPT !.show_detail_overlay = FALSE]
              ELSE IF app.view_stack # <<>>
                   THEN after = [app EXCEPT !.view_stack = SubSeq(@, 1, Len(@) - 1),
                                            !.current_view = state.view,
                                            !.selected_module_index = state.selected_module_index,
                                            !.selected_topic_index = state.selected_topic_index]
              ELSE after = [app EXCEPT !.current_view = "Summary"]]_vars

C20_Witness ==
    /\ app.last.op = "back"
    /\ app.last.popped
    /\ app.view_stack = <<>>
    /\ app.selected_module_index > 0

\* C21: when the event before was a view switch from view A (Tab,
\* Shift-Tab, 1/2/3 or a tab click that changed the view), Esc or
\* Backspace with no overlay open and no filter input returns to view A
\* with the selection indices A had.
C21_BackAfterSwitch ==
    [][(app'.events = app.events + 1 /\ app'.last.op = "back" /\ MainMode(app) /\ app.last.from # "none") =>
          /\ app'.current_view = app.last.from
          /\ app'.selected_module_index = app.selected_module_index
          /\ app'.selected_topic_index = app.last.topic]_vars

\* C22: outside filter input and with no overlay open, `/` enters input
\* mode and `c` clears the text; in input mode a character key appends
\* to the text (also `c`, `/` and `?`), Backspace removes the last
\* character and leaves input mode when the text is then empty, Enter and
\* Esc leave input mode and keep the text, Ctrl-C clears the text and
\* leaves input mode; nothing else of the App changes.
C22_FilterInput ==
    [][(app'.events = app.events + 1 /\ app'.last.key # "none") =>
          LET key == app'.last.key
              after == [app' EXCEPT !.events = app.events, !.last = app.last]
              popped == SubSeq(app.filter_text, 1, Len(app.filter_text) - 1)
          IN  IF MainMode(app)
              THEN CASE key = "/" -> after = [app EXCEPT !.filter_active = TRUE]
                     [] OTHER -> after = [app EXCEPT !.filter_text = <<>>]
              ELSE /\ FilterMode(app)
                   /\ CASE key \in CharKeys -> after = [app EXCEPT !.filter_text = Append(@, key)]
                         [] key = "Backspace" ->
                               after = [app EXCEPT !.filter_text = popped, !.filter_active = popped # <<>>]
                         [] key \in {"Enter", "Esc"} -> after = [app EXCEPT !.filter_active = FALSE]
                         [] key = "Ctrl-c" -> after = [app EXCEPT !.filter_text = <<>>, !.filter_active = FALSE]
                         [] OTHER -> after = app]_vars

\* `/`, a character and Backspace were typed: the text is empty again and
\* input mode was left.
C22_Witness ==
    /\ app.last.key = "Backspace"
    /\ app.filter_text = <<>>
    /\ ~app.filter_active
    /\ app.events >= 3

\* C23: a left click on a content row that holds an item of the current
\* view's visible list makes that item the view's selection (the module
\* selection in Summary and Flow, the topic selection in Bottleneck); a
\* click on a row below the last visible item changes no selection.
C23_ClickSelects ==
    [][(app'.events = app.events + 1 /\ app'.last.row # NoIndex) =>
          IF app'.last.row < VisibleCount(app)
          THEN CurrentIndex(app') = app'.last.row
          ELSE /\ app'.selected_module_index = app.selected_module_index
               /\ app'.selected_topic_index = app.selected_topic_index]_vars

\* C24: all register calls for a name that return with no unregister of
\* the name in between, concurrent ones included, return the one module
\* registered under the name, so their handles share its series: each
\* series holds the sum of the increments made through any of them, and a
\* collect reports the name once, as that module.
C24_RegisterIdempotent ==
    /\ \A n \in Names : regRet[n].ids # {} => regRet[n].ids = {modules[n]}
    /\ \A n \in Names, tp \in Topics :
          modules[n] # NoModule =>
             reads[modules[n]][tp].count + SumCalls(Threads, <<modules[n], "r", tp>>)
                = issued[<<modules[n], "r", tp>>]
    /\ \A t \in Collecting, n \in Names :
          col[t].out[n].present => regRet[n].ids = {col[t].out[n].id}

\* Two register calls for a name raced through the slow path, and a
\* snapshot shows the name with what was recorded through their module.
C24_Witness ==
    \E t \in Threads, n \in Names, tp \in Topics :
       /\ regRet[n].slowHit
       /\ th[t].pc = "c_done"
       /\ col[t].out[n].present
       /\ col[t].out[n].id \in regRet[n].ids
       /\ col[t].out[n].reads[tp].present
       /\ col[t].out[n].reads[tp].count >= 1

\* A step in which thread t's collect stores a series' (count, now) pair.
MemoStep(t) == th[t].pc \in {"c_rmemo", "c_wmemo"}
Memo(s) == SeriesOf(s[1], s[2], s[3]).prev_snapshot

C28_ChannelNeverBlocks ==
    /\ []((sched.busy # 0 /\ OutputSeq[sched.busy] = "channel") => ENABLED Emit(TRUE, TRUE))
    /\ []((sched.pc = "select" /\ sched.round > 0 /\ sched.dropped = sched.round) =>
             \A i \in 1..Len(OutputSeq) : sched.invoked[i] = sched.round)
    /\ [][(sched.busy # 0 /\ OutputSeq[sched.busy] = "channel" /\ sched'.ix = sched.ix + 1) =>
             /\ sched'.pc = "round"
             /\ sched'.busy = 0
             /\ sched'.failedRound = sched.failedRound
             /\ sched'.queue = IF Len(sched.queue) >= ChannelBuffer
                               THEN sched.queue
                               ELSE Append(sched.queue, sched.round)]_vars

\* The second round's snapshot was dropped at the full channel, which still
\* holds the first round's; the round went on to the last output and the
\* task waits for the next tick.
C28_Witness ==
    /\ sched.pc = "select"
    /\ sched.round = 2
    /\ sched.dropped = 2
    /\ sched.queue = <<1>>
    /\ sched.invoked[Len(OutputSeq)] = 2

\* C29: the File output replaces the file's contents atomically: a viewer
\* that reads the file at any moment, an emission in progress or not, reads a
\* complete document, the one emitted before or the new one.
C29_AtomicReplace ==
    (file.last.done /\ file.last.tried /\ file.last.sawFile) => file.last.readValid

\* C30: at most one emit call is in progress on an output at any time: the
\* spawned task and a caller of emit_now are never both inside the emit of
\* the same output.
C30_OneEmitPerOutput ==
    ~(sched.busy # 0 /\ sched.now.busy = sched.busy)

\* C31: the read rate of a module is the difference of its last two
\* recorded counts over the time between the two snapshots those counts
\* came from, and None with fewer than two points or no time between them,
\* whether or not the module was in every recorded snapshot.
C31_ReadRate ==
    \A n \in Names :
        LET r == history.module_reads[n]
            a == history.at[n]
            k == Len(r)
        IN  SameRate(get_read_rate(history, n),
                     IF k < 2 \/ a[k] - a[k - 1] = 0 THEN NoRate
                     ELSE [delta |-> r[k] - r[k - 1], elapsed |-> a[k] - a[k - 1]])

\* C32: for a topic on which the group has committed offsets, and whose
\* watermarks the broker reports, the adapter's entry carries a backlog, the
\* sum over those partitions of high watermark minus committed offset, and 0
\* when that sum is negative.
C32_BacklogClamped ==
    (/\ adapter.last.op = "collect_group"
     /\ adapter.last.committedOk
     /\ \E i \in 1..2 : adapter.last.parts[i].offset # NoValue
     /\ \A i \in 1..2 : adapter.last.parts[i].offset # NoValue => adapter.last.parts[i].wmOk) =>
        LET parts == adapter.last.parts
            lag == SumOver([e \in Partitions |-> IF e.offset # NoValue THEN e.high - e.offset ELSE 0], parts)
        IN  /\ adapter.last.result.present
            /\ adapter.last.result.backlog = IF lag < 0 THEN 0 ELSE lag

\* C33: a single-queue call that gets HTTP 401 returns an Auth error, one
\* that gets 404 a NotFound error, one that gets a 2xx response whose body
\* does not parse a Parse error, each after the one request the call made.
C33_QueueErrors ==
    (adapter.pc = "idle" /\ adapter.last.op = "fetch_queue" /\ adapter.last.resp.send = "ok") =>
        /\ adapter.requests = 1
        /\ adapter.last.resp.status = UNAUTHORIZED => adapter.last.result = "Auth"
        /\ adapter.last.resp.status = NOT_FOUND => adapter.last.result = "NotFound"
        /\ (is_success(adapter.last.resp.status) /\ ~adapter.last.resp.bodyOk) => adapter.last.result = "Parse"

\* C34: pressing `e` with data loaded sets a status message, and the
\* document an export that succeeds writes has the three top-level members
\* summary, modules and bottlenecks.
C34_ExportDocument ==
    (app.last.op = "export" /\ HasData(app)) =>
        /\ app.status_message \in {"Exported", "Export failed"}
        /\ app.status_message = "Exported" => app.exported.members = {"summary", "modules", "bottlenecks"}

\* C35: the registry is deadlock-free: whatever the interleaving of
\* register, unregister, record_*, start_*, token release, set_*_pending and
\* collect, every thread inside a call on the registry gets out of it; none
\* waits forever for the registry, a series map, the global counters, a
\* pending cell or a memo.
C35_EveryCallReturns ==
    \A t \in Tasks : []<>(th[t].pc \in {"idle", "c_done"})

\* A chain of waits: the application's record_write is parked on
\* topic_write_counts behind the collecting emission task, and emit_now's
\* collect holds modules and waits behind that writer.
C35_Witness ==
    /\ th["T1"].parked /\ th["T1"].pc = "gw_slow"
    /\ th["T2"].pc = "c_twc"
    /\ th[Emitter].pc \in CollectPcs

\* C36: when threads race on the first record call for a (module, topic),
\* the slow path of each either creates the series or keeps the one created
\* meanwhile with the count it has, so one series exists for the topic; and
\* once every record call on a series has returned from its add, the count
\* of the series is the sum of all the increments.
C36_OneSeriesAllIncrements ==
    /\ [](\A id \in SeriesIds :
             SumCalls(Threads, id) = 0 => SeriesOf(id[1], id[2], id[3]).count = issued[id])
    /\ [][\A t \in Threads :
             (th[t].pc = "lookup_slow" /\ th'[t].pc = "apply") =>
                LET old == SeriesOf(th[t].mid, th[t].kind, th[t].topic)
                    new == IF th[t].kind = "r" THEN reads'[th[t].mid][th[t].topic]
                           ELSE writes'[th[t].mid][th[t].topic]
                IN  new.exists /\ new.count = old.count /\ new.prev_snapshot = old.prev_snapshot]_vars

\* Two first record_write calls raced for a series: the slow path of the
\* second found the series the first had created, the first has returned,
\* and the series holds both increments.
C36_Witness ==
    \E t \in Threads :
       /\ th[t].raced
       /\ th[t].pc \in {"gw_slow", "gw_add"}
       /\ \A x \in Threads \ {t} : th[x].pc = "idle"
       /\ writes[th[t].mid][th[t].topic].count = issued[<<th[t].mid, "w", th[t].topic>>]
       /\ writes[th[t].mid][th[t].topic].count > th[t].k

RECURSIVE WriteSum(_, _)
\* The write counts of the series of topic tp in the modules S, added up.
WriteSum(S, tp) ==
    IF S = {} THEN 0
    ELSE LET m == CHOOSE x \in S : TRUE
         IN  writes[m][tp].count + WriteSum(S \ {m}, tp)

\* The record_write calls on topic tp that have not returned.
WritesInProgress(tp) ==
    {t \in Threads : th[t].pc # "idle" /\ th[t].op = "record" /\ th[t].kind = "w" /\ th[t].topic = tp}

\* The global writer counter of a topic, 0 while it has none.
GlobalCount(tp) == IF topic_write_counts[tp] = NoCounter THEN 0 ELSE topic_write_counts[tp]

\* C37: the global writer counter of a topic never exceeds the sum of the
\* write counts of the topic's series in every module ever allocated, the
\* unregistered ones included, and the two are equal whenever no
\* record_write call on the topic is in progress.
C37_GlobalCounterBounded ==
    \A tp \in Topics :
       /\ GlobalCount(tp) <= WriteSum(ModIds, tp)
       /\ WritesInProgress(tp) = {} => GlobalCount(tp) = WriteSum(ModIds, tp)

\* With no record_write in progress, the counter of a topic equals the sum
\* of the write counts of a registered module and of an unregistered one.
C37_Witness ==
    \E tp \in Topics, m \in retired, x \in ModIds \ retired :
       /\ WritesInProgress(tp) = {}
       /\ writes[m][tp].count > 0
       /\ writes[x][tp].count > 0
       /\ topic_write_counts[tp] = writes[m][tp].count + writes[x][tp].count
       /\ topic_write_counts[tp] = WriteSum(ModIds, tp)

\* The mouse events handed to handle_mouse_event.
MouseEvents == ({"Left"} \X Clicks) \cup ({"ScrollUp", "ScrollDown", "Right"} \X {[row |-> 0, column |-> 0]})

\* A step that is a key or a mouse event.
KeyOrMouse == (\E key \in Keys : KeyPress(key)) \/ (\E e \in MouseEvents : Mouse(e[1], e[2]))

\* C38: while the help overlay or the detail overlay is open no key and no
\* mouse event changes the current view, and whenever the detail overlay is
\* open the current view is Summary or Bottleneck.
C38_OverlayKeepsView ==
    /\ [](app.show_detail_overlay => app.current_view \in {"Summary", "Bottleneck"})
    /\ [][((app.show_help \/ app.show_detail_overlay) /\ KeyOrMouse) =>
             app'.current_view = app.current_view]_vars

\* The modal states that are active.
ModalStates(a) ==
    {x \in {"help", "detail", "filter"} :
        \/ x = "help" /\ a.show_help
        \/ x = "detail" /\ a.show_detail_overlay
        \/ x = "filter" /\ a.filter_active}

\* C39: after any sequence of key and mouse events at most one of the help
\* overlay, the detail overlay and filter input is active.
C39_OneModalState == Cardinality(ModalStates(app)) <= 1

\* A filter was typed and confirmed with Enter, and the next Enter opened
\* the detail overlay: the overlay is the one modal state.
C39_Witness ==
    /\ app.filter_text # <<>>
    /\ ModalStates(app) = {"detail"}
    /\ app.events = 4

\* The memo of a series is replaced by one that is not older: no smaller
\* count and no earlier instant.
MemoForward(old, new) ==
    (old.prev_snapshot # NoPrev /\ new.prev_snapshot # old.prev_snapshot) =>
        /\ new.prev_snapshot # NoPrev
        /\ new.prev_snapshot[1] >= old.prev_snapshot[1]
        /\ new.prev_snapshot[2] >= old.prev_snapshot[2]

\* C40: the memoized previous (count, instant) of a series never moves
\* backwards in count or in time, however concurrent collect calls
\* interleave.
C40_MemoMonotonic ==
    [][\A m \in ModIds, tp \in Topics :
          /\ MemoForward(reads[m][tp], reads'[m][tp])
          /\ MemoForward(writes[m][tp], writes'[m][tp])]_vars
====
